---------------------------- MODULE Spec2Model ----------------------------
(***************************************************************************)
(* Scene ownership, visibility, adoption and element merge of nib.        *)
(*                                                                         *)
(* ScenesService (scenes.service.ts) and ScenesRepository                  *)
(* (scenes.repository.ts) over the scenes table.  A handler of the         *)
(* service is one action of Spec; its requester inputs (the session's      *)
(* userId and ownedScenes) are drawn from small sets.                      *)
(***************************************************************************)
EXTENDS Integers, Sequences, FiniteSets, TLC

(* ------------------------------ bounds -------------------------------- *)

\* Longest id list handed to adoptByIds.
MaxAdoptLen == 2
\* Longest session.ownedScenes list handed to canModify on its own.
MaxOwned == 2
\* Longest stored element array, upsert array and delete array of a merge.
MaxStored == 2
MaxUpserts == 2
MaxDeletes == 1
\* Number of rows in the table two concurrent adoptions run on.
MaxAdoptDocs == 2

(* ------------------------------ values -------------------------------- *)

\* SQL NULL / JavaScript null, and JavaScript undefined (an omitted argument).
NULL == "null"
Undefined == "undefined"

\* users.id values (UUIDs) of the registered users.
Users == {"alice", "bob"}

\* Every scene id a request can name; an id that was never created or was
\* deleted names no row.
\* The table hands out its primary keys in this order and never twice.
SceneIds == {1, 2}

\* The requester identity handed to the service: session.userId or undefined.
RequesterIds == Users \cup {Undefined}

\* An optional value that is not a string: {some: FALSE} is undefined.
None == [some |-> FALSE]
Some(v) == [some |-> TRUE, v |-> v]

\* Sequences over S of length at most n.
SeqsUpTo(S, n) == UNION {[1..k -> S] : k \in 0..n}

\* session.ownedScenes as the requests of Spec carry it: undefined, empty or
\* one scene id.
OwnedInputs == {None, Some(<<>>)} \cup {Some(<<i>>) : i \in SceneIds}

\* JavaScript truthiness of a string-or-undefined value.
Truthy(v) == v # Undefined /\ v # NULL /\ v # ""

\* Array.prototype.includes
Includes(list, x) == \E i \in 1..Len(list) : list[i] = x

(* ------------------------------ elements ------------------------------ *)

ElemIds == {"e1", "e2"}

\* An element of data.elements: its id, type tag and x coordinate.
El(id, type, x) == [id |-> id, type |-> type, x |-> x]

\* Known element types, in the order the Set lists them.
VALID_ELEMENT_TYPES ==
  <<"rectangle", "diamond", "ellipse", "arrow", "line", "freedraw", "text",
    "image", "frame", "magicframe", "group", "embeddable", "iframe",
    "selection">>

\* A request body: null, or an object with an elements array.
NullBody == [kind |-> "null"]
Body(elements) == [kind |-> "object", elements |-> elements]

\* validateScene restricted to the bodies drawn here: null is rejected, and so
\* is an element with an empty id or an unknown type.
validateScene(data) ==
  IF data.kind = "null"
    THEN [valid |-> FALSE, elementCount |-> 0]
    ELSE [valid |-> \A i \in 1..Len(data.elements) :
                       /\ data.elements[i].id # ""
                       /\ Includes(VALID_ELEMENT_TYPES, data.elements[i].type),
          elementCount |-> Len(data.elements)]

\* A set that keeps the value a key already has.
MapSetKeepFirst(m, el) ==
  IF \E i \in 1..Len(m) : m[i].id = el.id THEN m ELSE Append(m, el)

\* Map.prototype.set on a map kept as its entries in insertion order: an
\* existing key keeps its place and takes the new value, a new key is appended.
MapSet(m, el) ==
  IF \E i \in 1..Len(m) : m[i].id = el.id
    THEN [i \in 1..Len(m) |-> IF m[i].id = el.id THEN el ELSE m[i]]
    ELSE Append(m, el)

\* Map.prototype.delete
MapDelete(m, id) == SelectSeq(m, LAMBDA e : e.id # id)

RECURSIVE SetAll(_, _)
SetAll(m, els) ==
  IF els = <<>> THEN m ELSE SetAll(MapSet(m, Head(els)), Tail(els))

RECURSIVE DeleteAll(_, _)
DeleteAll(m, ids) ==
  IF ids = <<>> THEN m ELSE DeleteAll(MapDelete(m, Head(ids)), Tail(ids))

\* A patch whose map is never seeded with the stored elements.
mergeDropExisting(existingElements, upserts, deletes) ==
  DeleteAll(SetAll(<<>>, upserts), deletes)

\* A patch that removes the deleted ids before it applies the upserts.
mergeDeleteFirst(existingElements, upserts, deletes) ==
  SetAll(DeleteAll(SetAll(<<>>, existingElements), deletes), upserts)

\* The merge of patchElements: index the stored elements by id, apply the
\* upserts, apply the deletes, Array.from(elementMap.values()).
mergeElements(existingElements, upserts, deletes) ==
  DeleteAll(SetAll(SetAll(<<>>, existingElements), upserts), deletes)

(* ------------------------------- state -------------------------------- *)

VARIABLES
  scenes,    \* the scenes table: scene id -> row, NoRow where there is none
  nextId,    \* the next primary key the table hands out
  resp,      \* the last request and what the service answered
  call,      \* a call of a pure function: its arguments and its results
  adopters,  \* the adoptByIds statements in flight, one per login
  writes,    \* how many times each row's owner has been written
  before,    \* the table as it was before the adoptions in flight began
  patchers,  \* the patchElements calls in flight
  now,       \* the server's clock (new Date())
  sessions,  \* the server-side session store: session id -> session data
  req        \* the last HTTP request a controller handled

vars == <<scenes, nextId, resp, call, adopters, writes, before, patchers, now,
          sessions, req>>

\* The service has not been called.
NoAnswer == [op |-> "none"]

\* What the service's handlers leave alone.
Idle == [fn |-> "none"]
NoAdopters == <<>>
NoPatchers == <<>>
ServiceFrame == UNCHANGED <<call, adopters, writes, before, patchers, now>>

\* What a call of the service that did not come through a controller leaves
\* alone.
NoSessions == <<>>
NoRequest == [route |-> "none"]
ControllerFrame == UNCHANGED <<sessions, req>>

NoRow == [live |-> FALSE]

\* A row of the scenes table; title, thumbnail, created_at and updated_at as the
\* table defaults them.
Row(id, user_id, is_public, data) ==
  [live |-> TRUE, id |-> id, user_id |-> user_id, is_public |-> is_public,
   data |-> data, title |-> "Untitled", thumbnail |-> NULL, created_at |-> 0,
   updated_at |-> 0]

\* ScenesRepository.findById: findByPk, null when there is no such row.
RepoFindById(id) == scenes[id]

NotFoundException(message) ==
  [kind |-> "NotFound", status |-> 404, message |-> message]
ForbiddenException(message) ==
  [kind |-> "Forbidden", status |-> 403, message |-> message]

(* --------------------------- ownership resolver ----------------------- *)

\* canModify as it was before sessions could own scenes: only the identity
\* counts.
canModifyIdentityOnly(scene, userId, ownedScenes) ==
  IF Truthy(userId) /\ scene.user_id = userId THEN TRUE ELSE FALSE

\* canModify with a loose comparison and no guard on the requester: null and
\* undefined compare equal.
canModifyLoose(scene, userId, ownedScenes) ==
  IF scene.user_id = userId
     \/ (scene.user_id \in {NULL, Undefined} /\ userId \in {NULL, Undefined})
    THEN TRUE
    ELSE IF ownedScenes.some /\ Includes(ownedScenes.v, scene.id) THEN TRUE
    ELSE FALSE

\* ScenesService.canModify
canModify(scene, userId, ownedScenes) ==
  IF Truthy(userId) /\ scene.user_id = userId THEN TRUE
  ELSE IF ownedScenes.some /\ Includes(ownedScenes.v, scene.id) THEN TRUE
  ELSE FALSE

(* ----------------------------- the service ---------------------------- *)

Ok(payload) == [kind |-> "ok", payload |-> payload]
ValidationFailed(validation) == [kind |-> "validation", validation |-> validation]

\* The request recorded with the answer it got.
Answer(op, id, input, userId, ownedScenes, result) ==
  [op |-> op, id |-> id, input |-> input, userId |-> userId,
   ownedScenes |-> ownedScenes, result |-> result]

\* The read of an earlier revision of the service: only scene.user_id decides,
\* the session's ownedScenes are not consulted.
findByIdOwnerOnly(scene, requestingUserId, ownedScenes) ==
  IF scene = NoRow THEN NotFoundException("Scene not found")
  ELSE IF ~scene.is_public /\ scene.user_id # requestingUserId
    THEN NotFoundException("Scene not found")
  ELSE Ok([scene |-> scene,
           canEdit |-> canModify(scene, requestingUserId, ownedScenes)])

\* A read that answers a hidden private scene with its own error.
findByIdForbidden(scene, requestingUserId, ownedScenes) ==
  IF scene = NoRow THEN NotFoundException("Scene not found")
  ELSE IF ~scene.is_public /\ ~canModify(scene, requestingUserId, ownedScenes)
    THEN ForbiddenException("Not authorized to view this scene")
  ELSE Ok([scene |-> scene,
           canEdit |-> canModify(scene, requestingUserId, ownedScenes)])

\* ScenesService.findById on the row the repository returned.
findById(scene, requestingUserId, ownedScenes) ==
  IF scene = NoRow THEN NotFoundException("Scene not found")
  ELSE IF ~scene.is_public /\ ~canModify(scene, requestingUserId, ownedScenes)
    THEN NotFoundException("Scene not found")
  ELSE Ok([scene |-> scene,
           canEdit |-> canModify(scene, requestingUserId, ownedScenes)])

\* Checks that only look for the row: whoever names it may change it.
mutationGuardLenient(scene, userId, ownedScenes, message) ==
  IF scene = NoRow THEN Some(NotFoundException("Scene not found")) ELSE None

\* Checks that answer a private scene the requester may not modify like a
\* missing one.
mutationGuardHiding(scene, userId, ownedScenes, message) ==
  IF scene = NoRow THEN Some(NotFoundException("Scene not found"))
  ELSE IF ~canModify(scene, userId, ownedScenes)
    THEN IF scene.is_public THEN Some(ForbiddenException(message))
         ELSE Some(NotFoundException("Scene not found"))
  ELSE None

\* The first two checks of update, patchElements and delete: the row must
\* exist and the requester must pass canModify.  None when both pass.
mutationGuard(scene, userId, ownedScenes, message) ==
  IF scene = NoRow THEN Some(NotFoundException("Scene not found"))
  ELSE IF ~canModify(scene, userId, ownedScenes)
    THEN Some(ForbiddenException(message))
  ELSE None

\* An update that rewrites the whole row from the fields it was given: the
\* owner, which is never among them, is lost.
RepoUpdateWholeRow(scene, updateData) ==
  [scene EXCEPT
     !.title = IF updateData.title.some THEN updateData.title.v ELSE @,
     !.data = IF updateData.data.some THEN updateData.data.v ELSE @,
     !.is_public = IF updateData.is_public.some THEN updateData.is_public.v ELSE @,
     !.thumbnail = IF updateData.thumbnail.some THEN updateData.thumbnail.v ELSE @,
     !.updated_at = now,
     !.user_id = NULL]

\* ScenesRepository.update: writes the given fields of the row and updated_at,
\* nothing else.
RepoUpdate(scene, updateData) ==
  [scene EXCEPT
     !.title = IF updateData.title.some THEN updateData.title.v ELSE @,
     !.data = IF updateData.data.some THEN updateData.data.v ELSE @,
     !.is_public = IF updateData.is_public.some THEN updateData.is_public.v ELSE @,
     !.thumbnail = IF updateData.thumbnail.some THEN updateData.thumbnail.v ELSE @,
     !.updated_at = now]

\* A delete that leaves the row in the table.
RepoDeleteSoft(scene) == scenes

\* ScenesRepository.delete: scene.destroy() removes the row.
RepoDelete(scene) == [scenes EXCEPT ![scene.id] = NoRow]

\* The WHERE clause of adoptByIds without its user_id guard.
AdoptWhereAnyOwner(row, sceneIds) ==
  row.live /\ Includes(sceneIds, row.id)

\* The WHERE clause of adoptByIds: id IN (sceneIds) AND user_id IS NULL.
AdoptWhere(row, sceneIds) ==
  row.live /\ Includes(sceneIds, row.id) /\ row.user_id = NULL

(* ------------------------------ inputs -------------------------------- *)

Rect0 == El("e1", "rectangle", 0)
Rect50 == El("e1", "rectangle", 50)
Alien == El("e1", "alien_shape", 0)

\* Bodies a create or a full update is sent.
SampleBodies == {NullBody, Body(<<Rect0>>), Body(<<Alien>>)}

\* Thumbnails: the data URL the server renders and the one a client sends.
ServerPng == "data:image/png;base64,server"
ClientPng == "data:image/png;base64,client"

\* What rendering a thumbnail can come to: a data URL, or null on failure.
RenderOutcomes == {ServerPng, NULL}

\* The request of a create or a full update: { title?, data?, is_public?,
\* thumbnail? }.
SceneInput(title, data, is_public, thumbnail) ==
  [title |-> title, data |-> data, is_public |-> is_public,
   thumbnail |-> thumbnail]

\* The request of an incremental update: { elements: { upserts, deletes },
\* appState?, files?, thumbnail? }, here without appState and files.
PatchInput(upserts, deletes, thumbnail) ==
  [upserts |-> upserts, deletes |-> deletes, thumbnail |-> thumbnail,
   appState |-> None, files |-> None]

OptBool == {None, Some(TRUE), Some(FALSE)}

\* The creates the service is sent: a body and any visibility.
CreateInputs ==
  {SceneInput(None, Some(d), p, None) : d \in SampleBodies, p \in OptBool}

\* Patches an incremental update is sent.
SamplePatches ==
  {PatchInput(<<Rect50>>, <<>>, None),
   PatchInput(<<Rect0>>, <<"e2">>, None)}

\* The fields a full update is sent: any of data and is_public.
UpdateInputs ==
  {SceneInput(None, None, None, None),
   SceneInput(None, None, Some(TRUE), None),
   SceneInput(None, None, Some(FALSE), None),
   SceneInput(None, Some(NullBody), Some(TRUE), None),
   SceneInput(None, Some(Body(<<Rect0>>)), None, None)}

AdoptLists == SeqsUpTo(SceneIds, MaxAdoptLen)

(* ------------------------------ actions ------------------------------- *)

Init ==
  /\ scenes = [i \in SceneIds |-> NoRow]
  /\ nextId = 1
  /\ resp = NoAnswer
  /\ call = Idle
  /\ adopters = NoAdopters
  /\ writes = [i \in SceneIds |-> 0]
  /\ before = [i \in SceneIds |-> NoRow]
  /\ patchers = NoPatchers
  /\ now = 0
  /\ sessions = NoSessions
  /\ req = NoRequest

\* ScenesService.findById
FindById(id, userId, ownedScenes) ==
  /\ resp' = Answer("findById", id, None, userId, ownedScenes,
                    findById(RepoFindById(id), userId, ownedScenes))
  /\ UNCHANGED <<scenes, nextId>>
  /\ ServiceFrame

\* generateThumbnail: null for a scene without elements, else what the
\* renderer came to (null when it failed).
generateThumbnail(sceneData, rendered) ==
  IF sceneData.kind # "object" THEN NULL
  ELSE IF Len(sceneData.elements) = 0 THEN NULL
  ELSE rendered

\* A create that gives up when the thumbnail could not be rendered.
CreateThumbnailRequired(data, userId, rendered) ==
  IF /\ validateScene(data.data.v).valid
     /\ ~data.thumbnail.some
     /\ Len(data.data.v.elements) > 0
     /\ rendered = NULL
    THEN /\ ServiceFrame
         /\ resp' = Answer("create", 0, Some(data), userId, None,
                           [kind |-> "error", status |-> 500,
                            message |-> "Thumbnail generation failed"])
         /\ UNCHANGED <<scenes, nextId>>
    ELSE
    LET validation == validateScene(data.data.v) IN
    /\ ServiceFrame
    /\ IF ~validation.valid
         THEN /\ resp' = Answer("create", 0, Some(data), userId, None, ValidationFailed(validation))
              /\ UNCHANGED <<scenes, nextId>>
         ELSE /\ nextId \in SceneIds
              /\ LET given == IF data.thumbnail.some THEN data.thumbnail.v ELSE NULL
                     thumbnail == IF given \in {NULL, ""}
                                    THEN generateThumbnail(data.data.v, rendered)
                                    ELSE given
                     scene == [Row(nextId,
                                   IF userId = Undefined THEN NULL ELSE userId,
                                   IF data.is_public.some THEN data.is_public.v ELSE FALSE,
                                   data.data.v)
                                 EXCEPT !.title = IF data.title.some /\ data.title.v # ""
                                                    THEN data.title.v ELSE "Untitled",
                                        !.thumbnail = IF thumbnail \in {NULL, ""}
                                                        THEN NULL ELSE thumbnail,
                                        !.created_at = now,
                                        !.updated_at = now]
                 IN /\ scenes' = [scenes EXCEPT ![nextId] = scene]
                    /\ resp' = Answer("create", nextId, Some(data), userId, None,
                                      Ok([scene |-> scene]))
              /\ nextId' = nextId + 1

\* ScenesService.create; rendered is what rendering the thumbnail comes to.
Create(data, userId, rendered) ==
  LET validation == validateScene(data.data.v) IN
  /\ ServiceFrame
  /\ IF ~validation.valid
       THEN /\ resp' = Answer("create", 0, Some(data), userId, None, ValidationFailed(validation))
            /\ UNCHANGED <<scenes, nextId>>
       ELSE /\ nextId \in SceneIds
            /\ LET given == IF data.thumbnail.some THEN data.thumbnail.v ELSE NULL
                   thumbnail == IF given \in {NULL, ""}
                                  THEN generateThumbnail(data.data.v, rendered)
                                  ELSE given
                   scene == [Row(nextId,
                                 IF userId = Undefined THEN NULL ELSE userId,
                                 IF data.is_public.some THEN data.is_public.v ELSE FALSE,
                                 data.data.v)
                               EXCEPT !.title = IF data.title.some /\ data.title.v # ""
                                                  THEN data.title.v ELSE "Untitled",
                                      !.thumbnail = IF thumbnail \in {NULL, ""}
                                                      THEN NULL ELSE thumbnail,
                                      !.created_at = now,
                                      !.updated_at = now]
               IN /\ scenes' = [scenes EXCEPT ![nextId] = scene]
                  /\ resp' = Answer("create", nextId, Some(data), userId, None,
                                    Ok([scene |-> scene]))
            /\ nextId' = nextId + 1

\* An update that writes the fields beside the body before it looks at the
\* body: an invalid body is still answered with the diagnostics, but the title,
\* visibility, thumbnail and updated_at it came with are stored.
UpdateValidatesAfterWrite(id, data, userId, ownedScenes) ==
  LET scene == RepoFindById(id)
      guard == mutationGuard(scene, userId, ownedScenes,
                             "Not authorized to modify this scene")
  IN
  /\ nextId' = nextId
  /\ ServiceFrame
  /\ IF guard.some
       THEN /\ resp' = Answer("update", id, Some(data), userId, ownedScenes, guard.v)
            /\ scenes' = scenes
       ELSE IF data.data.some /\ ~validateScene(data.data.v).valid
         THEN /\ resp' = Answer("update", id, Some(data), userId, ownedScenes,
                                ValidationFailed(validateScene(data.data.v)))
              /\ scenes' = [scenes EXCEPT ![id] =
                              RepoUpdate(scene, [data EXCEPT !.data = None])]
         ELSE LET updated == RepoUpdate(scene, data)
              IN /\ scenes' = [scenes EXCEPT ![id] = updated]
                 /\ resp' = Answer("update", id, Some(data), userId, ownedScenes,
                                   Ok([scene |-> updated]))

\* ScenesService.update
Update(id, data, userId, ownedScenes) ==
  LET scene == RepoFindById(id)
      guard == mutationGuard(scene, userId, ownedScenes,
                             "Not authorized to modify this scene")
  IN
  /\ nextId' = nextId
  /\ ServiceFrame
  /\ IF guard.some
       THEN /\ resp' = Answer("update", id, Some(data), userId, ownedScenes, guard.v)
            /\ scenes' = scenes
       ELSE IF data.data.some /\ ~validateScene(data.data.v).valid
         THEN /\ resp' = Answer("update", id, Some(data), userId, ownedScenes,
                                ValidationFailed(validateScene(data.data.v)))
              /\ scenes' = scenes
         ELSE LET updated == RepoUpdate(scene, data)
              IN /\ scenes' = [scenes EXCEPT ![id] = updated]
                 /\ resp' = Answer("update", id, Some(data), userId, ownedScenes,
                                   Ok([scene |-> updated]))

\* A patch that merges its appState into the stored one key by key.
PatchElementsMergingState(id, patch, userId, ownedScenes) ==
  LET scene == RepoFindById(id)
      guard == mutationGuard(scene, userId, ownedScenes,
                             "Not authorized to modify this scene")
  IN
  /\ nextId' = nextId
  /\ ServiceFrame
  /\ IF guard.some
       THEN /\ resp' = Answer("patchElements", id, Some(patch), userId, ownedScenes, guard.v)
            /\ scenes' = scenes
       ELSE LET merged == [scene.data EXCEPT !.elements =
                             mergeElements(@, patch.upserts, patch.deletes)]
                withAppState == IF patch.appState.some
                                  THEN (IF "appState" \in DOMAIN merged
                                          THEN ("appState" :> (patch.appState.v @@ merged.appState))
                                          ELSE ("appState" :> patch.appState.v)) @@ merged
                                  ELSE merged
                newData == IF patch.files.some
                             THEN ("files" :> patch.files.v) @@ withAppState
                             ELSE withAppState
                updated == RepoUpdate(scene, SceneInput(None, Some(newData), None,
                                                        patch.thumbnail))
            IN /\ scenes' = [scenes EXCEPT ![id] = updated]
               /\ resp' = Answer("patchElements", id, Some(patch), userId, ownedScenes,
                                 Ok([scene |-> updated]))

\* ScenesService.patchElements
PatchElements(id, patch, userId, ownedScenes) ==
  LET scene == RepoFindById(id)
      guard == mutationGuard(scene, userId, ownedScenes,
                             "Not authorized to modify this scene")
  IN
  /\ nextId' = nextId
  /\ ServiceFrame
  /\ IF guard.some
       THEN /\ resp' = Answer("patchElements", id, Some(patch), userId, ownedScenes, guard.v)
            /\ scenes' = scenes
       ELSE LET merged == [scene.data EXCEPT !.elements =
                             mergeElements(@, patch.upserts, patch.deletes)]
                withAppState == IF patch.appState.some
                                  THEN ("appState" :> patch.appState.v) @@ merged
                                  ELSE merged
                newData == IF patch.files.some
                             THEN ("files" :> patch.files.v) @@ withAppState
                             ELSE withAppState
                updated == RepoUpdate(scene, SceneInput(None, Some(newData), None,
                                                        patch.thumbnail))
            IN /\ scenes' = [scenes EXCEPT ![id] = updated]
               /\ resp' = Answer("patchElements", id, Some(patch), userId, ownedScenes,
                                 Ok([scene |-> updated]))

\* ScenesService.delete
Delete(id, userId, ownedScenes) ==
  LET scene == RepoFindById(id)
      guard == mutationGuard(scene, userId, ownedScenes,
                             "Not authorized to delete this scene")
  IN
  /\ nextId' = nextId
  /\ ServiceFrame
  /\ IF guard.some
       THEN /\ resp' = Answer("delete", id, None, userId, ownedScenes, guard.v)
            /\ scenes' = scenes
       ELSE /\ scenes' = RepoDelete(scene)
            /\ resp' = Answer("delete", id, None, userId, ownedScenes, Ok([scene |-> NoRow]))

\* ScenesRepository.adoptByIds, as the login callback runs it: one UPDATE.
AdoptByIds(sceneIds, userId) ==
  LET matched == IF Len(sceneIds) = 0 THEN {}
                 ELSE {i \in SceneIds : AdoptWhere(scenes[i], sceneIds)}
  IN
  /\ scenes' = [i \in SceneIds |->
                  IF i \in matched THEN [scenes[i] EXCEPT !.user_id = userId]
                  ELSE scenes[i]]
  /\ resp' = [op |-> "adoptByIds", sceneIds |-> sceneIds, userId |-> userId,
              result |-> Ok([count |-> Cardinality(matched)])]
  /\ nextId' = nextId
  /\ ServiceFrame

\* The service called directly, with any requester.
Next ==
  \/ \E id \in SceneIds, u \in RequesterIds, o \in OwnedInputs :
        FindById(id, u, o) /\ ControllerFrame
  \/ \E d \in CreateInputs, u \in RequesterIds :
        Create(d, u, ServerPng) /\ ControllerFrame
  \/ \E id \in SceneIds, d \in UpdateInputs, u \in RequesterIds, o \in OwnedInputs :
        Update(id, d, u, o) /\ ControllerFrame
  \/ \E id \in SceneIds, pt \in SamplePatches, u \in RequesterIds, o \in OwnedInputs :
        PatchElements(id, pt, u, o) /\ ControllerFrame
  \/ \E id \in SceneIds, u \in RequesterIds, o \in OwnedInputs :
        Delete(id, u, o) /\ ControllerFrame
  \/ \E ids \in AdoptLists, u \in Users : AdoptByIds(ids, u) /\ ControllerFrame

Spec == Init /\ [][Next]_vars

(* ------------------------- read and visibility ------------------------ *)

Mutations == {"update", "patchElements", "delete"}

\* The row a request named, as the table held it when the request ran (a read
\* and a refused mutation leave the table as it was).
Named == scenes[resp.id]

\* C2: a read of an existing document returns it iff it is public or the
\* requester passes canModify, and the canEdit flag it returns is canModify.
C2_ReadVisibility ==
  (resp.op = "findById" /\ Named # NoRow) =>
     /\ (resp.result.kind = "ok") <=>
           (Named.is_public \/ canModify(Named, resp.userId, resp.ownedScenes))
     /\ resp.result.kind = "ok" =>
           /\ resp.result.payload.scene = Named
           /\ resp.result.payload.canEdit =
                 canModify(Named, resp.userId, resp.ownedScenes)

\* A public document read by a requester who may not modify it.
C2_Witness ==
  /\ resp.op = "findById"
  /\ Named # NoRow
  /\ Named.is_public
  /\ resp.result.kind = "ok"
  /\ resp.result.payload.canEdit = FALSE

\* C3: a read of a private document the requester may not modify is answered
\* exactly like a read of an id that names no document: the same NotFound
\* error, message and status.
C3_ReadNonDisclosure ==
  (/\ resp.op = "findById"
   /\ \/ Named = NoRow
      \/ (~Named.is_public /\ ~canModify(Named, resp.userId, resp.ownedScenes)))
  => /\ resp.result = NotFoundException("Scene not found")
     /\ resp.result.status = 404

\* A private document read by a requester who may not modify it.
C3_Witness ==
  /\ resp.op = "findById"
  /\ Named # NoRow
  /\ ~Named.is_public
  /\ ~canModify(Named, resp.userId, resp.ownedScenes)
  /\ resp.result.kind = "NotFound"

(* --------------------------- mutation surface ------------------------- *)

C13_AuthorisedFirst ==
  [][resp'.op \in Mutations =>
       LET scene == scenes[resp'.id] IN
       /\ scene = NoRow =>
             /\ resp'.result.kind = "NotFound"
             /\ scenes' = scenes
       /\ (scene # NoRow /\ ~canModify(scene, resp'.userId, resp'.ownedScenes)) =>
             /\ resp'.result.kind = "Forbidden"
             /\ resp'.result.status = 403
             /\ scenes' = scenes]_vars

\* A full update with a body the validator rejects, by a requester who may not
\* modify the document, was answered Forbidden.
C13_Witness ==
  /\ resp.op = "update"
  /\ Named # NoRow
  /\ resp.input.v.data.some
  /\ ~validateScene(resp.input.v.data.v).valid
  /\ resp.result.kind = "Forbidden"

\* C15: a delete by a requester who passes canModify removes the row; from
\* then on the id names no document: no step brings the row back, and every
\* read, full update, patch or delete of the id is answered NotFound.
C15_DeleteTerminal ==
  [][\A i \in SceneIds :
       /\ (/\ resp'.op = "delete"
           /\ resp'.id = i
           /\ scenes[i] # NoRow
           /\ canModify(scenes[i], resp'.userId, resp'.ownedScenes))
          => /\ scenes'[i] = NoRow
             /\ resp'.result.kind = "ok"
       /\ (i < nextId /\ scenes[i] = NoRow)
          => /\ scenes'[i] = NoRow
             /\ (resp'.op \in Mutations \cup {"findById"} /\ resp'.id = i)
                   => resp'.result = NotFoundException("Scene not found")]_vars

\* The session that created a document and deleted it asks to delete it
\* again, and is answered NotFound.
C15_Witness ==
  /\ resp.op = "delete"
  /\ resp.id < nextId
  /\ resp.ownedScenes = Some(<<resp.id>>)
  /\ scenes[resp.id] = NoRow
  /\ resp.result.kind = "NotFound"

(* ------------------------------ adoption ------------------------------ *)

\* The documents an adoption of sceneIds finds unclaimed.
Unclaimed(sceneIds) ==
  {i \in SceneIds : /\ scenes[i] # NoRow
                    /\ Includes(sceneIds, i)
                    /\ scenes[i].user_id = NULL}

\* C5: adopt(ids, A) sets the owner to A on exactly the listed documents that
\* exist and have no owner, leaves every other document as it was, and returns
\* how many it updated.
C5_AdoptExactlyUnclaimed ==
  [][resp'.op = "adoptByIds" =>
       /\ \A i \in SceneIds :
             scenes'[i] = IF i \in Unclaimed(resp'.sceneIds)
                            THEN [scenes[i] EXCEPT !.user_id = resp'.userId]
                            ELSE scenes[i]
       /\ resp'.result.payload.count = Cardinality(Unclaimed(resp'.sceneIds))]_vars

\* An adoption of a list that mixes an unclaimed document with one owned by
\* another identity: one is adopted, the other keeps its owner.
C5_Witness ==
  /\ resp.op = "adoptByIds"
  /\ resp.result.payload.count = 1
  /\ \E i, j \in SceneIds :
        /\ Includes(resp.sceneIds, i) /\ Includes(resp.sceneIds, j)
        /\ scenes[i] # NoRow /\ scenes[i].user_id = resp.userId
        /\ scenes[j] # NoRow /\ scenes[j].user_id \in Users \ {resp.userId}

\* C7: adopt([id], A) on an unclaimed document returns 1 and makes A the owner;
\* the adoption of [id] that follows it, by A or by anyone else, returns 0 and
\* leaves A the owner.
C7_AdoptTwice ==
  [][resp'.op = "adoptByIds" /\ Len(resp'.sceneIds) = 1 =>
       LET id == resp'.sceneIds[1] IN
       /\ (scenes[id] # NoRow /\ scenes[id].user_id = NULL) =>
             /\ resp'.result.payload.count = 1
             /\ scenes'[id].user_id = resp'.userId
       /\ (/\ resp.op = "adoptByIds"
           /\ resp.sceneIds = resp'.sceneIds
           /\ resp.result.payload.count = 1) =>
             /\ resp'.result.payload.count = 0
             /\ scenes'[id].user_id = resp.userId]_vars

\* The second adoption of a document, by another identity: it returned 0 and
\* the first adopter is still the owner.
C7_Witness ==
  /\ resp.op = "adoptByIds"
  /\ Len(resp.sceneIds) = 1
  /\ resp.result.payload.count = 0
  /\ scenes[resp.sceneIds[1]] # NoRow
  /\ scenes[resp.sceneIds[1]].user_id \in Users \ {resp.userId}

\* C8: the owner of a document changes only by an adoption, and only from
\* absent: once a document has an owner it keeps that owner while it exists.
C8_OwnershipMonotone ==
  [][\A i \in SceneIds :
       (/\ scenes[i] # NoRow
        /\ scenes'[i] # NoRow
        /\ scenes'[i].user_id # scenes[i].user_id)
       => /\ scenes[i].user_id = NULL
          /\ resp'.op = "adoptByIds"]_vars

\* An owned document changed by a requester other than its owner (one who
\* holds it in ownedScenes): the owner is still there.
C8_Witness ==
  /\ resp.op \in {"update", "patchElements"}
  /\ resp.result.kind = "ok"
  /\ resp.result.payload.scene.user_id \in Users \ {resp.userId}
  /\ scenes[resp.id].user_id = resp.result.payload.scene.user_id

(* ---------------------- canModify as a function ----------------------- *)

\* Every scene row canModify can be handed.
ResolverScenes ==
  {Row(i, o, p, Body(<<>>)) : i \in SceneIds, o \in Users \cup {NULL}, p \in BOOLEAN}

\* Every ownedScenes argument: undefined, or a list of scene ids.
ResolverOwned == {None} \cup {Some(l) : l \in SeqsUpTo(SceneIds, MaxOwned)}

ResolverInit ==
  /\ scenes = [i \in SceneIds |-> NoRow]
  /\ nextId = 1
  /\ resp = NoAnswer
  /\ adopters = NoAdopters
  /\ writes = [i \in SceneIds |-> 0]
  /\ before = [i \in SceneIds |-> NoRow]
  /\ patchers = NoPatchers
  /\ now = 0
  /\ sessions = NoSessions
  /\ req = NoRequest
  /\ \E sc \in ResolverScenes, u \in RequesterIds, o \in ResolverOwned :
        call = [fn |-> "canModify", scene |-> sc, userId |-> u,
                ownedScenes |-> o, done |-> FALSE, result |-> FALSE]

CallCanModify ==
  /\ call.fn = "canModify"
  /\ ~call.done
  /\ call' = [call EXCEPT !.done = TRUE,
                          !.result = canModify(call.scene, call.userId,
                                               call.ownedScenes)]
  /\ UNCHANGED <<scenes, nextId, resp, adopters, writes, before, patchers, now,
                 sessions, req>>

ResolverNext == CallCanModify

SpecResolver == ResolverInit /\ [][ResolverNext]_vars

\* C1: canModify is true iff the requester identity is present and is the
\* document's owner, or the document's id is in the ephemeral set; an id in the
\* ephemeral set is enough whatever the owner, and an absent identity never
\* matches an absent owner.
C1_CanModifyIff ==
  (call.fn = "canModify" /\ call.done) =>
     LET identityMatches ==
           call.userId # Undefined /\ call.userId = call.scene.user_id
         inEphemeralSet ==
           /\ call.ownedScenes.some
           /\ call.scene.id \in {call.ownedScenes.v[k] :
                                   k \in 1..Len(call.ownedScenes.v)}
     IN /\ call.result <=> (identityMatches \/ inEphemeralSet)
        /\ (call.userId = Undefined /\ call.ownedScenes = Some(<<call.scene.id>>))
              => call.result
        /\ (call.userId = Undefined /\ call.scene.user_id = NULL /\ ~inEphemeralSet)
              => ~call.result

\* canModify(doc, undefined, [doc.id]) has answered true for a document owned
\* by somebody.
C1_Witness ==
  /\ call.fn = "canModify"
  /\ call.done
  /\ call.userId = Undefined
  /\ call.ownedScenes = Some(<<call.scene.id>>)
  /\ call.scene.user_id \in Users
  /\ call.result

(* ------------------------ the merge as a function --------------------- *)

\* The x coordinates that tell one version of an element from another.
MergeXs == {0, 50}

ElementsOver(ids) == {El(id, "rectangle", x) : id \in ids, x \in MergeXs}

\* The patches that touch only the element ids in ids.
PatchesOver(ids) ==
  [upserts : SeqsUpTo(ElementsOver(ids), MaxUpserts),
   deletes : SeqsUpTo(ids, MaxDeletes)]

IdsOf(elements) == {elements[k].id : k \in 1..Len(elements)}

\* The element ids a patch names, in its upserts or in its deletes.
Touched(patch) ==
  IdsOf(patch.upserts) \cup {patch.deletes[k] : k \in 1..Len(patch.deletes)}

\* The content a collection holds for an id: that of its last element with it.
ContentOf(elements, id) ==
  LET last == CHOOSE k \in 1..Len(elements) :
                 /\ elements[k].id = id
                 /\ \A j \in (k + 1)..Len(elements) : elements[j].id # id
  IN elements[last]

\* Two collections with the same ids and the same content for every id.
SameCollection(a, b) ==
  /\ IdsOf(a) = IdsOf(b)
  /\ \A id \in IdsOf(a) : ContentOf(a, id) = ContentOf(b, id)

\* One patch that carries the upserts and the deletes of two.
UnionPatch(p, q) ==
  [upserts |-> p.upserts \o q.upserts, deletes |-> p.deletes \o q.deletes]

ApplyPatch(elements, patch) ==
  mergeElements(elements, patch.upserts, patch.deletes)

\* A stored element array (ids may repeat: nothing checks them on create) and
\* two patches A and B that touch disjoint element ids.
MergeInit ==
  /\ scenes = [i \in SceneIds |-> NoRow]
  /\ nextId = 1
  /\ resp = NoAnswer
  /\ adopters = NoAdopters
  /\ writes = [i \in SceneIds |-> 0]
  /\ before = [i \in SceneIds |-> NoRow]
  /\ patchers = NoPatchers
  /\ now = 0
  /\ sessions = NoSessions
  /\ req = NoRequest
  /\ \E E \in SeqsUpTo(ElementsOver(ElemIds), MaxStored), A \in PatchesOver(ElemIds) :
        \E B \in PatchesOver(ElemIds \ Touched(A)) :
           call = [fn |-> "mergeElements", existing |-> E, A |-> A, B |-> B,
                   pc |-> "A", afterA |-> <<>>, afterAB |-> <<>>,
                   afterBA |-> <<>>, afterUnion |-> <<>>, afterUnionBA |-> <<>>]

MergeFrame ==
  UNCHANGED <<scenes, nextId, resp, adopters, writes, before, patchers, now,
              sessions, req>>

\* The patch A alone.
MergeA ==
  /\ call.fn = "mergeElements" /\ call.pc = "A"
  /\ call' = [call EXCEPT !.pc = "AB",
                          !.afterA = ApplyPatch(call.existing, call.A)]
  /\ MergeFrame

\* The patch B on what A left.
MergeAThenB ==
  /\ call.fn = "mergeElements" /\ call.pc = "AB"
  /\ call' = [call EXCEPT !.pc = "BA",
                          !.afterAB = ApplyPatch(call.afterA, call.B)]
  /\ MergeFrame

\* The patches in the other order.
MergeBThenA ==
  /\ call.fn = "mergeElements" /\ call.pc = "BA"
  /\ call' = [call EXCEPT !.pc = "union",
                          !.afterBA = ApplyPatch(ApplyPatch(call.existing, call.B),
                                                 call.A)]
  /\ MergeFrame

\* One patch with the upserts and deletes of both.
MergeUnion ==
  /\ call.fn = "mergeElements" /\ call.pc = "union"
  /\ call' = [call EXCEPT !.pc = "done",
                          !.afterUnion =
                             ApplyPatch(call.existing, UnionPatch(call.A, call.B)),
                          !.afterUnionBA =
                             ApplyPatch(call.existing, UnionPatch(call.B, call.A))]
  /\ MergeFrame

MergeNext == MergeA \/ MergeAThenB \/ MergeBThenA \/ MergeUnion

SpecMerge == MergeInit /\ [][MergeNext]_vars

\* C9: an id that one patch both upserts and deletes is not in the result,
\* whether or not it was stored before.
C9_DeleteOverUpsert ==
  (call.fn = "mergeElements" /\ call.pc # "A") =>
     \A id \in ElemIds :
        (/\ id \in IdsOf(call.A.upserts)
         /\ Includes(call.A.deletes, id))
        => id \notin IdsOf(call.afterA)

\* A patch has upserted and deleted an id that was not stored before, and
\* another that was.
C9_Witness ==
  /\ call.fn = "mergeElements"
  /\ call.pc # "A"
  /\ \E id \in IdsOf(call.A.upserts) :
        /\ Includes(call.A.deletes, id)
        /\ id \notin IdsOf(call.existing)
        /\ IdsOf(call.existing) # {}

\* C10: for patches A and B that touch disjoint element ids, A then B, B then
\* A and the one patch with the upserts and deletes of both leave the same
\* collection: the same ids, the same content for each.
C10_Composable ==
  (call.fn = "mergeElements" /\ call.pc = "done"
   /\ Touched(call.A) \cap Touched(call.B) = {}) =>
     /\ SameCollection(call.afterAB, call.afterUnion)
     /\ SameCollection(call.afterAB, call.afterUnionBA)
     /\ SameCollection(call.afterAB, call.afterBA)

\* Both patches changed the stored collection, one by replacing a stored
\* element and one by adding a new one, and all the results are in.
C10_Witness ==
  /\ call.fn = "mergeElements"
  /\ call.pc = "done"
  /\ Touched(call.A) # {} /\ Touched(call.B) # {}
  /\ \E id \in IdsOf(call.A.upserts) \cap IdsOf(call.existing) \cap IdsOf(call.afterAB) :
        ContentOf(call.afterAB, id) # ContentOf(call.existing, id)
  /\ \E id \in IdsOf(call.B.upserts) \cap IdsOf(call.afterAB) :
        id \notin IdsOf(call.existing)

\* C11: the merge with an empty patch returns a collection with the ids of the
\* stored one and, for each id, the content the stored one holds for it (that
\* of the last element with the id, when the id is stored twice).
C11_EmptyPatchIdentity ==
  (/\ call.fn = "mergeElements"
   /\ call.pc # "A"
   /\ call.A.upserts = <<>>
   /\ call.A.deletes = <<>>)
  => /\ IdsOf(call.afterA) = IdsOf(call.existing)
     /\ \A id \in IdsOf(call.existing) :
           ContentOf(call.afterA, id) = ContentOf(call.existing, id)

\* The empty patch has been merged into a collection that stores one id twice,
\* with different content.
C11_Witness ==
  /\ call.fn = "mergeElements"
  /\ call.pc # "A"
  /\ call.A.upserts = <<>>
  /\ call.A.deletes = <<>>
  /\ \E j, k \in 1..Len(call.existing) :
        /\ j < k
        /\ call.existing[j].id = call.existing[k].id
        /\ call.existing[j] # call.existing[k]

(* ------------------------ concurrent adoptions ------------------------ *)

\* Two logins complete at once; each runs adoptByIds.
Logins == {1, 2}

AdoptDocIds == 1..MaxAdoptDocs

\* The id lists of the two adoptions: any set of row ids, in ascending order.
AdoptSets ==
  {l \in SeqsUpTo(AdoptDocIds, MaxAdoptDocs) :
     \A j, k \in 1..Len(l) : j < k => l[j] < l[k]}

\* The row version a statement evaluates its WHERE clause on when it reads the
\* row as of the statement's start and writes later.
RowViewStale(current, snapshot) == snapshot

\* The row version the UPDATE evaluates its WHERE clause on: the database locks
\* the row and takes its latest version, whatever the row was when the
\* statement began.
RowView(current, snapshot) == current

AdoptInit ==
  /\ nextId = MaxAdoptDocs + 1
  /\ resp = NoAnswer
  /\ call = Idle
  /\ writes = [i \in AdoptDocIds |-> 0]
  /\ \E owner \in [AdoptDocIds -> Users \cup {NULL, "no row"}] :
        scenes = [i \in AdoptDocIds |->
                    IF owner[i] = "no row" THEN NoRow
                    ELSE Row(i, owner[i], FALSE, Body(<<>>))]
  /\ before = scenes
  /\ patchers = NoPatchers
  /\ now = 0
  /\ sessions = NoSessions
  /\ req = NoRequest
  /\ \E s1, s2 \in AdoptSets, u2 \in Users :
        adopters = [p \in Logins |->
                      [pc |-> "ready",
                       sceneIds |-> IF p = 1 THEN s1 ELSE s2,
                       userId |-> IF p = 1 THEN "alice" ELSE u2,
                       snapshot |-> scenes, pending |-> {}, count |-> 0]]

AdoptFrame == UNCHANGED <<nextId, resp, call, before, patchers, now, sessions, req>>

\* adoptByIds is called: an empty list returns 0 at once, any other list
\* starts the UPDATE.
AdoptBegin(p) ==
  LET a == adopters[p] IN
  /\ a.pc = "ready"
  /\ adopters' = [adopters EXCEPT ![p] =
        IF Len(a.sceneIds) = 0
          THEN [a EXCEPT !.pc = "returned", !.count = 0]
          ELSE [a EXCEPT !.pc = "running", !.snapshot = scenes,
                         !.pending = {a.sceneIds[k] : k \in 1..Len(a.sceneIds)}]]
  /\ UNCHANGED <<scenes, writes>>
  /\ AdoptFrame

\* The UPDATE reaches one row of its id list: it sets user_id if the row
\* passes the WHERE clause, and counts the row.
AdoptRow(p, i) ==
  LET a == adopters[p]
      row == RowView(scenes[i], a.snapshot[i])
  IN
  /\ a.pc = "running"
  /\ i \in a.pending
  /\ IF AdoptWhere(row, a.sceneIds)
       THEN /\ scenes' = [scenes EXCEPT ![i] = [row EXCEPT !.user_id = a.userId]]
            /\ writes' = [writes EXCEPT ![i] = @ + 1]
            /\ adopters' = [adopters EXCEPT ![p].pending = @ \ {i},
                                            ![p].count = @ + 1]
       ELSE /\ UNCHANGED <<scenes, writes>>
            /\ adopters' = [adopters EXCEPT ![p].pending = @ \ {i}]
  /\ AdoptFrame

\* The UPDATE has seen every row: adoptByIds returns the count.
AdoptReturn(p) ==
  /\ adopters[p].pc = "running"
  /\ adopters[p].pending = {}
  /\ adopters' = [adopters EXCEPT ![p].pc = "returned"]
  /\ UNCHANGED <<scenes, writes>>
  /\ AdoptFrame

AdoptNext ==
  \/ \E p \in Logins : AdoptBegin(p)
  \/ \E p \in Logins, i \in AdoptDocIds : AdoptRow(p, i)
  \/ \E p \in Logins : AdoptReturn(p)

SpecAdopt == AdoptInit /\ [][AdoptNext]_vars

\* The rows of either id list that had no owner before the adoptions began.
WereUnclaimed ==
  {i \in AdoptDocIds :
     /\ Includes(adopters[1].sceneIds, i) \/ Includes(adopters[2].sceneIds, i)
     /\ before[i] # NoRow
     /\ before[i].user_id = NULL}

\* C6: under every interleaving of two adoptions, a row's owner is written at
\* most once; when both have returned, every row of their lists that was
\* unclaimed is owned by one of the two callers, every other row is as it was,
\* and the two counts add up to the number of rows that were unclaimed.
C6_ConcurrentAdoption ==
  /\ \A i \in AdoptDocIds : writes[i] <= 1
  /\ (\A p \in Logins : adopters[p].pc = "returned") =>
        /\ \A i \in WereUnclaimed :
              /\ scenes[i].user_id \in {adopters[1].userId, adopters[2].userId}
              /\ \E p \in Logins : /\ Includes(adopters[p].sceneIds, i)
                                   /\ scenes[i].user_id = adopters[p].userId
        /\ \A i \in AdoptDocIds \ WereUnclaimed : scenes[i] = before[i]
        /\ adopters[1].count + adopters[2].count = Cardinality(WereUnclaimed)

\* Two adoptions by different callers over the same two unclaimed rows have
\* both returned, and each caller got one of the rows.
C6_Witness ==
  /\ \A p \in Logins : adopters[p].pc = "returned"
  /\ adopters[1].userId # adopters[2].userId
  /\ adopters[1].sceneIds = adopters[2].sceneIds
  /\ Cardinality(WereUnclaimed) >= 2
  /\ adopters[1].count = 1
  /\ adopters[2].count = 1

(* -------------------------- concurrent patches ------------------------ *)

\* Two requests patch the same document at once.
Patchers == {1, 2}

\* The document the two patches go to.
PatchDocId == 1

\* patchElements has three moments: the repository's findById resolves; the
\* handler checks, merges and hands the payload to the repository; the
\* repository's UPDATE of the row runs.  Anything may happen between them.
PatchInit ==
  /\ nextId = 2
  /\ resp = NoAnswer
  /\ call = Idle
  /\ adopters = NoAdopters
  /\ writes = [i \in SceneIds |-> 0]
  /\ now = 0
  /\ sessions = NoSessions
  /\ req = NoRequest
  /\ \E E \in SeqsUpTo(ElementsOver(ElemIds), MaxStored), pub \in BOOLEAN :
        scenes = [i \in SceneIds |->
                    IF i = PatchDocId THEN Row(i, NULL, pub, Body(E)) ELSE NoRow]
  /\ before = scenes
  /\ \E A \in PatchesOver({"e1"}), B \in PatchesOver({"e2"}) :
        patchers = [p \in Patchers |->
                      [pc |-> "ready", id |-> PatchDocId,
                       patch |-> IF p = 1 THEN PatchInput(A.upserts, A.deletes, None)
                                 ELSE PatchInput(B.upserts, B.deletes, None),
                       userId |-> Undefined,
                       ownedScenes |-> Some(<<PatchDocId>>),
                       scene |-> NoRow, payload |-> None, result |-> None]]

PatchFrame == UNCHANGED <<nextId, resp, call, adopters, writes, before, now,
                          sessions, req>>

\* await this.scenesRepository.findById(id)
PatchFetch(p) ==
  /\ patchers[p].pc = "ready"
  /\ patchers' = [patchers EXCEPT ![p].pc = "fetched",
                                  ![p].scene = RepoFindById(patchers[p].id)]
  /\ UNCHANGED scenes
  /\ PatchFrame

\* The handler runs on from the row it fetched: the checks, the merge, the
\* payload of the update.
PatchMerge(p) ==
  LET a == patchers[p]
      guard == mutationGuard(a.scene, a.userId, a.ownedScenes,
                             "Not authorized to modify this scene")
  IN
  /\ a.pc = "fetched"
  /\ patchers' = [patchers EXCEPT ![p] =
        IF guard.some
          THEN [a EXCEPT !.pc = "returned", !.result = Some(guard.v)]
          ELSE [a EXCEPT !.pc = "merged",
                         !.payload =
                            Some(SceneInput(None,
                                   Some([a.scene.data EXCEPT !.elements =
                                           mergeElements(@, a.patch.upserts,
                                                         a.patch.deletes)]),
                                   None, a.patch.thumbnail))]]
  /\ UNCHANGED scenes
  /\ PatchFrame

\* scene.update(payload): the UPDATE writes the payload's columns of the row,
\* the whole data column among them, whatever the row holds by now.
PatchWrite(p) ==
  LET a == patchers[p] IN
  /\ a.pc = "merged"
  /\ scenes' = [scenes EXCEPT ![a.id] =
                  IF @ = NoRow THEN @ ELSE RepoUpdate(@, a.payload.v)]
  /\ patchers' = [patchers EXCEPT ![p].pc = "returned",
                                  ![p].result =
                                     Some(Ok([scene |-> RepoUpdate(a.scene, a.payload.v)]))]
  /\ PatchFrame

PatchNext ==
  \/ \E p \in Patchers : PatchFetch(p)
  \/ \E p \in Patchers : PatchMerge(p)
  \/ \E p \in Patchers : PatchWrite(p)

SpecPatch == PatchInit /\ [][PatchNext]_vars

\* The element a patch leaves for an id it upserts: its last upsert of the id.
LastUpsert(patch, id) == ContentOf(patch.upserts, id)

\* C12: two concurrent patches that touch disjoint element ids compose: once
\* both have completed, under every interleaving, the stored collection has
\* every element either patch upserted (and did not delete) as that patch left
\* it, and none of the ids either patch deleted.
C12_ConcurrentPatchesCompose ==
  (\A p \in Patchers : /\ patchers[p].pc = "returned"
                       /\ patchers[p].result.v.kind = "ok")
  => \A p \in Patchers :
        LET patch == patchers[p].patch
            stored == scenes[PatchDocId].data.elements
        IN /\ \A k \in 1..Len(patch.deletes) : patch.deletes[k] \notin IdsOf(stored)
           /\ \A id \in IdsOf(patch.upserts) :
                 ~Includes(patch.deletes, id) =>
                    /\ id \in IdsOf(stored)
                    /\ ContentOf(stored, id) = LastUpsert(patch, id)

(* --------------------------- the controllers -------------------------- *)

\* The browser sessions that talk to the server.
SessionIds == {1, 2}

\* The user behind each browser.
SessionUser(s) == IF s = 1 THEN "alice" ELSE "bob"

\* A fresh session: nobody logged in, no ownedScenes yet.
NewSession == [userId |-> Undefined, ownedScenes |-> None, created |-> {}]

\* The request a controller handled: its route, the session it came in, the
\* scene id it named or got, the visibility it carried and the HTTP status it
\* was answered with.
Request(route, session, id, is_public, status) ==
  [route |-> route, session |-> session, id |-> id, is_public |-> is_public,
   status |-> status]

\* The HTTP status of what the service answered.
HttpStatus(route, result) ==
  IF result.kind = "ok"
    THEN (IF route \in {"POST", "UPLOAD"} THEN 201
          ELSE IF route = "DELETE" THEN 204 ELSE 200)
  ELSE IF result.kind = "validation" THEN 422
  ELSE result.status

\* An upload whose visibility is private unless the form says otherwise.
uploadIsPublicNever(form, isAuthenticated) ==
  IF form.some THEN form.v = "true" ELSE FALSE

\* upload: the form's is_public ("true" or "false") wins, otherwise anonymous
\* uploads are public and authenticated ones private.
uploadIsPublic(form, isAuthenticated) ==
  IF form.some THEN form.v = "true" ELSE ~isAuthenticated

\* The files an upload carries: none, one that is not JSON, or a scene.
NoFile == [kind |-> "none"]
NotJson == [kind |-> "garbage"]
JsonFile(data) == [kind |-> "json", data |-> data, originalname |-> ""]

\* POST /api/scenes/upload: no file and a file that is not JSON are answered
\* 400; the title is the form's, else the file's name without its extension,
\* else "Untitled".
ControllerUpload(s, file, title, form) ==
  LET userId == sessions[s].userId
      isPublic == uploadIsPublic(form, Truthy(userId))
  IN
  /\ sessions' = sessions
  /\ IF file.kind # "json"
       THEN /\ req' = Request("UPLOAD", s, 0, form, 400)
            /\ resp' = NoAnswer
            /\ UNCHANGED <<scenes, nextId>>
            /\ ServiceFrame
       ELSE /\ Create(SceneInput(IF title.some /\ title.v # "" THEN title
                                 ELSE IF file.originalname # ""
                                   THEN Some(file.originalname)
                                 ELSE Some("Untitled"),
                                 Some(file.data), Some(isPublic), None),
                      userId, ServerPng)
            /\ req' = Request("UPLOAD", s, resp'.id, form,
                              HttpStatus("UPLOAD", resp'.result))

\* POST /api/scenes, with or without a login: an anonymous create defaults to
\* public and puts the new id in the session's ownedScenes.
ControllerCreate(s, body, rendered) ==
  LET userId == sessions[s].userId
      isPublic == IF body.is_public.some THEN body.is_public.v ELSE ~Truthy(userId)
      owned == IF sessions[s].ownedScenes.some THEN sessions[s].ownedScenes.v
               ELSE <<>>
  IN
  /\ Create([body EXCEPT !.is_public = Some(isPublic)], userId, rendered)
  /\ req' = Request("POST", s, resp'.id, body.is_public,
                    HttpStatus("POST", resp'.result))
  /\ sessions' =
       IF resp'.result.kind = "ok" /\ ~Truthy(userId)
         THEN [sessions EXCEPT ![s].ownedScenes = Some(Append(owned, resp'.id)),
                               ![s].created = @ \cup {resp'.id}]
         ELSE sessions

\* GET /api/scenes/:id
ControllerFindOne(s, id) ==
  /\ FindById(id, sessions[s].userId, sessions[s].ownedScenes)
  /\ req' = Request("GET", s, id, None, HttpStatus("GET", resp'.result))
  /\ sessions' = sessions

\* PUT /api/scenes/:id
ControllerUpdate(s, id, body) ==
  /\ Update(id, body, sessions[s].userId, sessions[s].ownedScenes)
  /\ req' = Request("PUT", s, id, body.is_public, HttpStatus("PUT", resp'.result))
  /\ sessions' = sessions

\* PATCH /api/scenes/:id
ControllerPatch(s, id, patch) ==
  /\ PatchElements(id, patch, sessions[s].userId, sessions[s].ownedScenes)
  /\ req' = Request("PATCH", s, id, None, HttpStatus("PATCH", resp'.result))
  /\ sessions' = sessions

\* DELETE /api/scenes/:id
ControllerRemove(s, id) ==
  /\ Delete(id, sessions[s].userId, sessions[s].ownedScenes)
  /\ req' = Request("DELETE", s, id, None, HttpStatus("DELETE", resp'.result))
  /\ sessions' = sessions

\* GET /auth/callback: the login completes; the session's ownedScenes are
\* adopted by the user and cleared, and the session carries the user's id.
AuthCallback(s, user) ==
  LET owned == IF sessions[s].ownedScenes.some THEN sessions[s].ownedScenes.v
               ELSE <<>>
  IN
  /\ ~Truthy(sessions[s].userId)
  /\ AdoptByIds(owned, user)
  /\ sessions' = [sessions EXCEPT ![s].userId = user,
                                  ![s].ownedScenes = Some(<<>>)]
  /\ req' = Request("LOGIN", s, 0, None, 302)

\* What the sessions send.
UploadFiles == {NoFile, NotJson, JsonFile(Body(<<Rect0>>))}
UploadForms == {None, Some("true"), Some("false")}
CreateBodies ==
  {SceneInput(None, Some(d), p, None) :
     d \in {Body(<<Rect0>>), NullBody}, p \in OptBool}
UpdateBodies ==
  {SceneInput(None, None, Some(FALSE), None),
   SceneInput(None, Some(NullBody), Some(TRUE), None)}
PatchBodies == {PatchInput(<<Rect50>>, <<>>, None)}

SessionInit ==
  /\ scenes = [i \in SceneIds |-> NoRow]
  /\ nextId = 1
  /\ resp = NoAnswer
  /\ call = Idle
  /\ adopters = NoAdopters
  /\ writes = [i \in SceneIds |-> 0]
  /\ before = [i \in SceneIds |-> NoRow]
  /\ patchers = NoPatchers
  /\ now = 0
  /\ sessions = [s \in SessionIds |-> NewSession]
  /\ req = NoRequest

SessionNext ==
  \/ \E s \in SessionIds, f \in UploadFiles, form \in UploadForms :
        ControllerUpload(s, f, None, form)
  \/ \E s \in SessionIds, b \in CreateBodies : ControllerCreate(s, b, ServerPng)
  \/ \E s \in SessionIds, id \in SceneIds : ControllerFindOne(s, id)
  \/ \E s \in SessionIds, id \in SceneIds, b \in UpdateBodies :
        ControllerUpdate(s, id, b)
  \/ \E s \in SessionIds, id \in SceneIds, pt \in PatchBodies :
        ControllerPatch(s, id, pt)
  \/ \E s \in SessionIds, id \in SceneIds : ControllerRemove(s, id)
  \/ \E s \in SessionIds : AuthCallback(s, SessionUser(s))

SpecSession == SessionInit /\ [][SessionNext]_vars

\* The body of a full update passes the validator, or there is none.
BodyAccepted(input) == input.data.some => validateScene(input.data.v).valid

ScenarioPatches ==
  {PatchInput(<<Rect50>>, <<>>, None),
   PatchInput(<<El("e2", "ellipse", 0), Rect50>>, <<>>, None),
   PatchInput(<<Rect50>>, <<"e2">>, None)}

ScenarioCreate ==
  /\ req = NoRequest
  /\ \E s \in SessionIds, t \in {"rectangle", "ellipse", "text"}, p \in OptBool,
        r \in RenderOutcomes :
        ControllerCreate(s, SceneInput(None, Some(Body(<<El("e1", t, 0)>>)), p, None), r)

ScenarioPatch ==
  /\ req.route = "POST"
  /\ \E pt \in ScenarioPatches : ControllerPatch(req.session, req.id, pt)

ScenarioRead ==
  /\ req.route = "PATCH"
  /\ ControllerFindOne(req.session, req.id)

ScenarioLogin ==
  /\ req.route = "GET"
  /\ \E u \in Users : AuthCallback(req.session, u)

ScenarioReadBack ==
  /\ req.route = "LOGIN"
  /\ ControllerFindOne(req.session, resp.sceneIds[1])

ScenarioNext ==
  \/ ScenarioCreate
  \/ ScenarioPatch
  \/ ScenarioRead
  \/ ScenarioLogin
  \/ ScenarioReadBack

SpecScenario == SessionInit /\ [][ScenarioNext]_vars

MaxClock == 2

\* The one scene the requests below create and then update.
FieldsDocId == 1

\* The clock advances between requests.
Tick ==
  /\ now < MaxClock
  /\ now' = now + 1
  /\ UNCHANGED <<scenes, nextId, resp, call, adopters, writes, before, patchers,
                 sessions, req>>

\* Creates and full updates with every field present or absent; the body is
\* null, without elements, well-formed, or of an unknown element type.
FieldsTitles == {None, Some("Sketch")}
FieldsThumbnails == {None, Some(ClientPng)}
FieldsCreateInputs ==
  {SceneInput(t, Some(d), p, th) :
     t \in FieldsTitles, d \in SampleBodies \cup {Body(<<>>)},
     p \in {None, Some(TRUE)}, th \in FieldsThumbnails}
FieldsUpdateInputs ==
  {SceneInput(t, d, p, th) :
     t \in FieldsTitles, d \in {None, Some(NullBody), Some(Body(<<Rect50>>))},
     p \in OptBool, th \in FieldsThumbnails}

FieldsCreate ==
  \E d \in FieldsCreateInputs, rendered \in RenderOutcomes :
    /\ nextId = FieldsDocId
    /\ Create(d, "alice", rendered)
    /\ ControllerFrame

FieldsUpdate ==
  \E d \in FieldsUpdateInputs, u \in Users :
    Update(FieldsDocId, d, u, None) /\ ControllerFrame

FieldsNext == Tick \/ FieldsCreate \/ FieldsUpdate

SpecFields == Init /\ [][FieldsNext]_vars

J(t, v) == [t |-> t, v |-> (t :> v)]
Val(j) == j.v[j.t]

\* o[k]: the own property of an object, undefined on anything else.
Get(o, k) ==
  IF o.t = "object" /\ \E i \in 1..Len(Val(o)) : Val(o)[i][1] = k
    THEN Val(o)[CHOOSE i \in 1..Len(Val(o)) : Val(o)[i][1] = k][2]
    ELSE J("undefined", Undefined)

\* typeof
TypeOf(v) ==
  IF v.t \in {"null", "array", "object"} THEN "object"
  ELSE IF v.t = "infinity" THEN "number"
  ELSE v.t

\* What a call comes to: a value, or an exception.
Returns(result) == [outcome |-> "returns", result |-> result]
Throws == [outcome |-> "throws", error |-> "TypeError"]

\* Number.prototype.toString of an integer.
RECURSIVE IntToStr(_)
IntToStr(n) ==
  LET Digit(d) == CASE d = 0 -> "0" [] d = 1 -> "1" [] d = 2 -> "2"
                    [] d = 3 -> "3" [] d = 4 -> "4" [] d = 5 -> "5"
                    [] d = 6 -> "6" [] d = 7 -> "7" [] d = 8 -> "8"
                    [] d = 9 -> "9"
  IN IF n < 0 THEN "-" \o IntToStr(0 - n)
     ELSE IF n < 10 THEN Digit(n)
     ELSE IntToStr(n \div 10) \o Digit(n % 10)

\* [...list].join(sep) of a list of strings.
RECURSIVE Join(_, _)
Join(list, sep) ==
  IF Len(list) = 0 THEN ""
  ELSE IF Len(list) = 1 THEN list[1]
  ELSE list[1] \o sep \o Join(Tail(list), sep)

\* ToString, as a template literal applies it to ${value}.  An array joins its
\* items with "," (null and undefined items as ""); an object is converted by
\* its toString and then its valueOf: an own "toString" member, which in a
\* parsed value is never a function, hides Object.prototype.toString, and the
\* valueOf that is left (an own member that is no function, or
\* Object.prototype.valueOf, which gives the object back) yields no primitive,
\* so the conversion throws a TypeError.
RECURSIVE ToStringJS(_)
ToStringJS(v) ==
  LET RECURSIVE JoinItems(_, _)
      JoinItems(items, k) ==
        IF k > Len(items) THEN Returns("")
        ELSE LET head == IF items[k].t \in {"null", "undefined"}
                           THEN Returns("") ELSE ToStringJS(items[k])
                 rest == JoinItems(items, k + 1)
             IN IF head.outcome = "throws" \/ rest.outcome = "throws"
                  THEN Throws
                  ELSE Returns(head.result
                               \o (IF k < Len(items) THEN "," ELSE "")
                               \o rest.result)
  IN CASE v.t = "string" -> Returns(Val(v))
       [] v.t = "number" -> Returns(IntToStr(Val(v)))
       [] v.t = "infinity" -> Returns("Infinity")
       [] v.t = "boolean" -> Returns(IF Val(v) THEN "true" ELSE "false")
       [] v.t = "null" -> Returns("null")
       [] v.t = "undefined" -> Returns("undefined")
       [] v.t = "array" -> JoinItems(Val(v), 1)
       [] v.t = "object" -> IF Get(v, "toString").t # "undefined"
                              THEN Throws
                              ELSE Returns("[object Object]")

VALID_STROKE_STYLES == <<"solid", "dashed", "dotted">>
VALID_FILL_STYLES == <<"hachure", "cross-hatch", "solid", "zigzag">>
VALID_ROUNDNESS_TYPES == {1, 2, 3}

\* The body of validateScene's loop for the element at index i: the errors it
\* pushes, in order, or the exception it ends with.
validateElement(el, i) ==
  LET prefix == "$.elements[" \o IntToStr(i) \o "]"
      Err(path, message) == [path |-> path, message |-> message]
      id == Get(el, "id")
      type == Get(el, "type")
      isType(name) == type.t = "string" /\ Val(type) = name
      idErrors ==
        IF TypeOf(id) # "string" \/ Val(id) = ""
          THEN <<Err(prefix \o ".id", "Element must have a non-empty string 'id'")>>
          ELSE <<>>
      typeErrors ==
        IF TypeOf(type) # "string"
          THEN <<Err(prefix \o ".type", "Element must have a string 'type'")>>
        ELSE IF ~Includes(VALID_ELEMENT_TYPES, Val(type))
          THEN <<Err(prefix \o ".type",
                     "Unknown element type '" \o Val(type) \o "'. Known types: "
                       \o Join(VALID_ELEMENT_TYPES, ", "))>>
        ELSE <<>>
      number(field) ==
        IF TypeOf(Get(el, field)) # "number" \/ Get(el, field).t = "infinity"
          THEN <<Err(prefix \o "." \o field,
                     "Element must have a finite number '" \o field \o "'")>>
          ELSE <<>>
      style(field, valid) ==
        LET value == Get(el, field) IN
        IF value.t # "undefined"
           /\ ~(value.t = "string" /\ Includes(valid, Val(value)))
          THEN IF ToStringJS(value).outcome = "throws" THEN Throws
               ELSE Returns(<<Err(prefix \o "." \o field,
                                  "Invalid " \o field \o " '"
                                    \o ToStringJS(value).result
                                    \o "'. Must be one of: "
                                    \o Join(valid, ", "))>>)
          ELSE Returns(<<>>)
      strokeStyle == style("strokeStyle", VALID_STROKE_STYLES)
      fillStyle == style("fillStyle", VALID_FILL_STYLES)
      r == Get(el, "roundness")
      roundnessErrors ==
        IF r.t \notin {"undefined", "null"}
           /\ (\/ TypeOf(r) # "object"
               \/ TypeOf(Get(r, "type")) # "number"
               \/ Get(r, "type").t = "infinity"
               \/ Val(Get(r, "type")) \notin VALID_ROUNDNESS_TYPES)
          THEN <<Err(prefix \o ".roundness",
                     "Invalid roundness. Must be null or { type: 1|2|3 }")>>
          ELSE <<>>
      angle == Get(el, "angle")
      angleErrors ==
        IF angle.t # "undefined"
           /\ (TypeOf(angle) # "number" \/ angle.t = "infinity")
          THEN <<Err(prefix \o ".angle", "angle must be a finite number")>>
          ELSE <<>>
      isDeletedErrors ==
        IF Get(el, "isDeleted").t \notin {"undefined", "boolean"}
          THEN <<Err(prefix \o ".isDeleted", "isDeleted must be a boolean")>>
          ELSE <<>>
      textErrors ==
        IF isType("text")
          THEN (IF TypeOf(Get(el, "text")) # "string"
                  THEN <<Err(prefix \o ".text",
                             "Text elements must have a string 'text' field")>>
                  ELSE <<>>)
               \o (IF TypeOf(Get(el, "fontSize")) # "number"
                     THEN <<Err(prefix \o ".fontSize",
                                "Text elements must have a numeric 'fontSize'")>>
                     ELSE <<>>)
          ELSE <<>>
      pointsErrors ==
        IF (isType("arrow") \/ isType("line") \/ isType("freedraw"))
           /\ Get(el, "points").t # "array"
          THEN <<Err(prefix \o ".points",
                     Val(type) \o " elements must have a 'points' array")>>
          ELSE <<>>
      fileIdErrors ==
        IF isType("image")
           /\ (TypeOf(Get(el, "fileId")) # "string" \/ Val(Get(el, "fileId")) = "")
          THEN <<Err(prefix \o ".fileId",
                     "Image elements must have a non-empty 'fileId'")>>
          ELSE <<>>
  IN IF el.t # "object"
       THEN Returns(<<Err(prefix, "Element must be an object")>>)
     ELSE IF strokeStyle.outcome = "throws" \/ fillStyle.outcome = "throws"
       THEN Throws
     ELSE Returns(idErrors \o typeErrors
                  \o number("x") \o number("y") \o number("width")
                  \o number("height")
                  \o strokeStyle.result \o fillStyle.result
                  \o roundnessErrors \o angleErrors \o isDeletedErrors
                  \o textErrors \o pointsErrors \o fileIdErrors)

\* validateScene on any parsed JSON value (or undefined).
validateJson(data) ==
  LET Err(path, message) == [path |-> path, message |-> message]
      Result(errors, elementCount) ==
        Returns([valid |-> Len(errors) = 0, errors |-> errors,
                 elementCount |-> elementCount])
      elements == Get(data, "elements")
      RECURSIVE Elements(_, _)
      Elements(k, errors) ==
        IF k > Len(Val(elements)) THEN Returns(errors)
        ELSE LET one == validateElement(Val(elements)[k], k - 1)
             IN IF one.outcome = "throws" THEN Throws
                ELSE Elements(k + 1, errors \o one.result)
      elementErrors ==
        IF elements.t = "undefined"
          THEN Returns(<<Err("$.elements", "Missing required field 'elements'")>>)
        ELSE IF elements.t # "array"
          THEN Returns(<<Err("$.elements", "'elements' must be an array")>>)
        ELSE Elements(1, <<>>)
      appState == Get(data, "appState")
      appStateErrors ==
        IF appState.t \notin {"undefined", "null"} /\ appState.t # "object"
          THEN <<Err("$.appState", "appState must be an object if provided")>>
          ELSE <<>>
      files == Get(data, "files")
      RECURSIVE Files(_)
      Files(k) ==
        IF k > Len(Val(files)) THEN <<>>
        ELSE LET prefix == "$.files[\"" \o Val(files)[k][1] \o "\"]"
                 f == Val(files)[k][2]
             IN (IF TypeOf(f) # "object" \/ f.t = "null"
                   THEN <<Err(prefix, "File entry must be an object")>>
                   ELSE (IF TypeOf(Get(f, "mimeType")) # "string"
                           THEN <<Err(prefix \o ".mimeType",
                                      "File entry must have a string 'mimeType'")>>
                           ELSE <<>>)
                        \o (IF TypeOf(Get(f, "dataURL")) # "string"
                              THEN <<Err(prefix \o ".dataURL",
                                         "File entry must have a string 'dataURL'")>>
                              ELSE <<>>))
                \o Files(k + 1)
      filesErrors ==
        IF files.t \in {"undefined", "null"} THEN <<>>
        ELSE IF files.t # "object"
          THEN <<Err("$.files",
                     "files must be an object (map of fileId -> file data) if provided")>>
        ELSE Files(1)
  IN IF data.t \in {"null", "undefined"}
       THEN Returns([valid |-> FALSE,
                     errors |-> <<Err("$", "Scene data is null or undefined")>>,
                     elementCount |-> 0])
     ELSE IF data.t # "object"
       THEN Returns([valid |-> FALSE,
                     errors |-> <<Err("$", "Scene data must be a JSON object, not "
                                       \o (IF data.t = "array" THEN "an array"
                                           ELSE TypeOf(data)))>>,
                     elementCount |-> 0])
     ELSE IF elementErrors.outcome = "throws" THEN Throws
     ELSE Result(elementErrors.result \o appStateErrors \o filesErrors,
                 IF elements.t = "array" THEN Len(Val(elements)) ELSE 0)

\* Longest elements array the validator is given.
MaxElements == 2

\* An element with the required fields: its id, type and x, and what else it
\* carries.
Shape(id, type, x, extra) ==
  J("object", <<<<"id", id>>, <<"type", type>>, <<"x", x>>,
                <<"y", J("number", 0)>>, <<"width", J("number", 10)>>,
                <<"height", J("number", 25)>>>> \o extra)

\* Items of an elements array: values that are no objects; rectangles with an
\* optional field holding a valid value, an invalid one, or nested JSON (among
\* it objects with a member named toString); elements whose id, type or x is
\* missing its kind; text, arrow and image elements with and without the
\* fields their type requires; elements of an unknown type.
ElementSamples ==
  LET S(s) == J("string", s)
      N(n) == J("number", n)
      Null == J("null", NULL)
      O(members) == J("object", members)
      A(items) == J("array", items)
      Hidden == O(<<<<"toString", N(1)>>>>)
      Rect(extra) == Shape(S("a"), S("rectangle"), N(0), extra)
      Options ==
        {<<>>,
         <<<<"strokeStyle", S("dashed")>>, <<"fillStyle", S("hachure")>>,
           <<"roundness", O(<<<<"type", N(2)>>>>)>>, <<"angle", N(0)>>,
           <<"isDeleted", J("boolean", FALSE)>>>>,
         <<<<"angle", S("x")>>>>,
         <<<<"isDeleted", N(1)>>>>}
        \cup {<<<<"strokeStyle", v>>>> :
                v \in {S("wavy"), N(7), Null, O(<<>>), Hidden,
                       A(<<N(1), Null, S("b")>>), A(<<Hidden>>)}}
        \cup {<<<<"fillStyle", v>>>> :
                v \in {S("solid"), J("boolean", TRUE),
                       O(<<<<"toString", Null>>, <<"valueOf", N(1)>>>>)}}
        \cup {<<<<"roundness", v>>>> :
                v \in {Null, O(<<<<"type", N(9)>>>>), N(3), A(<<>>), Hidden}}
  IN {Null, N(5), A(<<>>)}
     \cup {Rect(extra) : extra \in Options}
     \cup {Shape(S(""), S("rectangle"), N(0), <<>>),
           Shape(S("a"), N(1), N(0), <<>>),
           Shape(S("a"), S("ellipse"), J("infinity", "1e999"), <<>>),
           Shape(S("a"), S("text"), N(0), <<>>),
           Shape(S("a"), S("text"), N(0),
                 <<<<"text", S("hi")>>, <<"fontSize", N(20)>>>>),
           Shape(S("a"), S("arrow"), N(0), <<>>),
           Shape(S("a"), S("arrow"), N(0), <<<<"points", A(<<>>)>>>>),
           Shape(S("a"), S("image"), N(0), <<>>),
           Shape(S("a"), S("image"), N(0), <<<<"fileId", S("f1")>>>>),
           Shape(S("a"), S("not-a-real-type"), N(0), <<>>),
           Shape(S("a"), S("not-a-real-type"), N(0),
                 <<<<"strokeStyle", Hidden>>>>)}

\* What validateScene is called with: undefined, every kind of value that is
\* no object, and objects without elements, with elements that are no array,
\* and with an elements array beside an appState or a files member that is an
\* object, an array, a primitive or null.
SceneSamples ==
  LET S(s) == J("string", s)
      N(n) == J("number", n)
      Null == J("null", NULL)
      O(members) == J("object", members)
      A(items) == J("array", items)
      Beside ==
        {<<>>,
         <<<<"appState", O(<<>>)>>, <<"files", O(<<>>)>>>>,
         <<<<"appState", A(<<>>)>>>>,
         <<<<"appState", S("bad")>>>>,
         <<<<"appState", Null>>, <<"files", Null>>>>,
         <<<<"files", N(1)>>>>,
         <<<<"files", A(<<>>)>>>>,
         <<<<"files", O(<<<<"f1", Null>>>>)>>>>,
         <<<<"files", O(<<<<"f1", O(<<<<"mimeType", S("image/png")>>>>)>>,
                          <<"f2", A(<<>>)>>>>)>>>>}
  IN {Null, J("undefined", Undefined), J("boolean", TRUE), N(0),
      J("infinity", "1e999"), S("scene"), A(<<>>), O(<<>>),
      O(<<<<"elements", Null>>>>)}
     \cup {O(<<<<"elements", A(els)>>>> \o beside) :
             els \in SeqsUpTo(ElementSamples, MaxElements), beside \in Beside}

ValidateInit ==
  /\ scenes = [i \in SceneIds |-> NoRow]
  /\ nextId = 1
  /\ resp = NoAnswer
  /\ adopters = NoAdopters
  /\ writes = [i \in SceneIds |-> 0]
  /\ before = [i \in SceneIds |-> NoRow]
  /\ patchers = NoPatchers
  /\ now = 0
  /\ sessions = NoSessions
  /\ req = NoRequest
  /\ \E data \in SceneSamples :
        call = [fn |-> "validateScene", data |-> data, done |-> FALSE,
                result |-> [outcome |-> "pending"]]

CallValidateScene ==
  /\ call.fn = "validateScene"
  /\ ~call.done
  /\ call' = [call EXCEPT !.done = TRUE, !.result = validateJson(call.data)]
  /\ UNCHANGED <<scenes, nextId, resp, adopters, writes, before, patchers, now,
                 sessions, req>>

ValidateNext == CallValidateScene

SpecValidate == ValidateInit /\ [][ValidateNext]_vars

\* C19: validator totality.  Whatever JSON value validateScene is called with,
\* the call returns a result {valid, errors, elementCount}; it never throws.
C19_ValidatorTotal ==
  call.fn = "validateScene" /\ call.done
    => /\ call.result.outcome = "returns"
       /\ DOMAIN call.result.result = {"valid", "errors", "elementCount"}

\* The message contains the word.
Names(message, word) ==
  \E i \in 1..(Len(message) - Len(word) + 1) :
     SubSeq(message, i, i + Len(word) - 1) = word

\* C20: unknown element types are rejecting.  For a scene with an element whose
\* type is a string outside the known set, the result has valid = false and an
\* error at that element's type path whose message names the type.
C20_UnknownTypeRejected ==
  call.fn = "validateScene" /\ call.done
    => \A i \in 1..(IF Get(call.data, "elements").t = "array"
                      THEN Len(Val(Get(call.data, "elements"))) ELSE 0) :
         LET type == Get(Val(Get(call.data, "elements"))[i], "type") IN
         type.t = "string" /\ ~Includes(VALID_ELEMENT_TYPES, Val(type))
           => /\ call.result.outcome = "returns"
              /\ ~call.result.result.valid
              /\ \E k \in 1..Len(call.result.result.errors) :
                    /\ call.result.result.errors[k].path
                         = "$.elements[" \o IntToStr(i - 1) \o "].type"
                    /\ Names(call.result.result.errors[k].message, Val(type))

(* -------------------------- standalone validation --------------------- *)

\* checkSizeLimit: an error when byteLength exceeds maxBytes, else null.  The
\* sizes in the message are (bytes / 2^20).toFixed(1) and .toFixed(0).
checkSizeLimit(byteLength, maxBytes) ==
  LET MiB == 1024 * 1024
      tenths == (byteLength * 20 + MiB) \div (2 * MiB)
      sizeMB == IntToStr(tenths \div 10) \o "." \o IntToStr(tenths % 10)
      limitMB == IntToStr((maxBytes * 2 + MiB) \div (2 * MiB))
  IN IF byteLength > maxBytes
       THEN Some([path |-> "$",
                  message |-> "Scene data is " \o sizeMB \o "MB, exceeding the "
                                \o limitMB \o "MB limit"])
       ELSE None

\* ScenesService.validate: the size check, then validateScene.  validated says
\* whether validateScene was called.
validate(data, contentLength) ==
  LET sizeError == checkSizeLimit(contentLength, 50 * 1024 * 1024) IN
  IF sizeError.some
    THEN [validated |-> FALSE, sizeError |-> TRUE,
          answer |-> Returns([valid |-> FALSE, errors |-> <<sizeError.v>>,
                              elementCount |-> 0])]
    ELSE [validated |-> TRUE, sizeError |-> FALSE,
          answer |-> validateJson(data)]

\* ScenesController.validate (POST /api/scenes/validate of the NestJS
\* application): @HttpCode(200), the service's result is the response body; an
\* exception of the validator is answered 500.
ControllerValidate(data, contentLength) ==
  LET result == validate(data, contentLength) IN
  /\ resp' = [op |-> "validate", data |-> data, contentLength |-> contentLength,
              validated |-> result.validated, sizeError |-> result.sizeError,
              result |-> result.answer]
  /\ req' = [route |-> "VALIDATE", app |-> "nest",
             status |-> IF result.answer.outcome = "throws" THEN 500 ELSE 200]
  /\ UNCHANGED <<scenes, nextId, sessions>>
  /\ ServiceFrame

\* router.post("/validate") of the Express application: 413 on a size error,
\* else 200 or 422 by the validator's result.
RouterValidate(data, contentLength) ==
  LET sizeError == checkSizeLimit(contentLength, 50 * 1024 * 1024)
      result == validateJson(data)
  IN
  /\ resp' = [op |-> "validate", data |-> data, contentLength |-> contentLength,
              validated |-> ~sizeError.some, sizeError |-> sizeError.some,
              result |-> IF sizeError.some
                           THEN Returns([valid |-> FALSE,
                                         errors |-> <<sizeError.v>>,
                                         elementCount |-> 0])
                           ELSE result]
  /\ req' = [route |-> "VALIDATE", app |-> "express",
             status |-> IF sizeError.some THEN 413
                        ELSE IF result.outcome = "throws" THEN 500
                        ELSE IF result.result.valid THEN 200 ELSE 422]
  /\ UNCHANGED <<scenes, nextId, sessions>>
  /\ ServiceFrame

\* Validation requests of any size, with a body that is null, has no elements,
\* or has one element (no object, well-formed, or of an unknown type), beside
\* the create of a scene.
StandaloneNext ==
  \/ \E data \in {J("null", NULL), J("object", <<>>)}
                  \cup {J("object", <<<<"elements", J("array", <<el>>)>>>>) :
                          el \in {J("number", 5),
                                  Shape(J("string", "a"), J("string", "rectangle"),
                                        J("number", 0), <<>>),
                                  Shape(J("string", "a"), J("string", "not-a-real-type"),
                                        J("number", 0), <<>>)}},
        contentLength \in {0, 50 * 1024 * 1024, 50 * 1024 * 1024 + 1, 60000000} :
        ControllerValidate(data, contentLength) \/ RouterValidate(data, contentLength)
  \/ \E p \in OptBool :
        /\ nextId = 1
        /\ Create(SceneInput(None, Some(Body(<<Rect0>>)), p, None), Undefined, ServerPng)
        /\ ControllerFrame

SpecStandalone == Init /\ [][StandaloneNext]_vars

\* C21: standalone validation applies the size check first: an oversized
\* payload is answered 413 with a single size error and elementCount 0, and
\* validateScene is not called; otherwise the validator's result is the
\* response, with status 200 when it is valid and 422 when it is not.  Nothing
\* is stored in either case.
C21_StandaloneValidation ==
  [][resp'.op = "validate" /\ req'.route = "VALIDATE"
     => /\ scenes' = scenes
        /\ IF resp'.contentLength > 50 * 1024 * 1024
             THEN /\ req'.status = 413
                  /\ ~resp'.validated
                  /\ resp'.result.outcome = "returns"
                  /\ ~resp'.result.result.valid
                  /\ Len(resp'.result.result.errors) = 1
                  /\ resp'.result.result.elementCount = 0
             ELSE /\ resp'.result = validateJson(resp'.data)
                  /\ resp'.result.outcome = "returns"
                  /\ req'.status = IF resp'.result.result.valid THEN 200 ELSE 422]_vars

(* ---------------------- what reaches the stored body ------------------ *)

\* The creates of SpecStore: a body with two elements beside an appState, a
\* files map and a key of its own; a body whose two elements share an id; a
\* body with one element; a body with an element of an unknown type.
StoreCreate ==
  \E d \in {("appState" :> [zoom |-> 1, theme |-> "dark"])
              @@ ("files" :> [f1 |-> "data:image/png;base64,a"])
              @@ ("source" :> "nib")
              @@ Body(<<Rect0, El("e2", "ellipse", 0)>>),
            Body(<<Rect0, Rect50>>), Body(<<Rect0>>), Body(<<Alien>>)} :
    /\ nextId = FieldsDocId
    /\ Create(SceneInput(None, Some(d), None, None), "alice", ServerPng)
    /\ ControllerFrame

\* The patches of SpecStore: upserts and deletes of elements, an element of an
\* unknown type, a thumbnail, an appState, a files map.
StorePatch ==
  \E pt \in {PatchInput(<<Rect50>>, <<>>, None),
             PatchInput(<<El("e2", "text", 7)>>, <<"e1">>, Some(ClientPng)),
             PatchInput(<<El("e2", "alien_shape", 0)>>, <<>>, None),
             [PatchInput(<<>>, <<>>, None) EXCEPT
                !.appState = Some([zoom |-> 2])],
             [PatchInput(<<>>, <<"e2">>, None) EXCEPT
                !.files = Some([f2 |-> "data:image/png;base64,b"])]},
     u \in Users :
    PatchElements(FieldsDocId, pt, u, None) /\ ControllerFrame

\* The full updates of SpecStore: of the fields beside the body, of the body,
\* and one with a body the validator rejects.
StoreUpdate ==
  \E d \in {SceneInput(Some("Sketch"), None, Some(TRUE), None),
            SceneInput(None, Some(Body(<<Rect50>>)), None, Some(ClientPng)),
            SceneInput(None, Some(NullBody), None, None)},
     u \in Users :
    Update(FieldsDocId, d, u, None) /\ ControllerFrame

StoreNext == Tick \/ StoreCreate \/ StoreUpdate \/ StorePatch

SpecStore == Init /\ [][StoreNext]_vars

\* C22: malformed data never reaches storage.  After any sequence of creates,
\* full updates and incremental patches the body of every row is one that
\* validateScene accepts.
C22_StoredBodyValid ==
  \A id \in SceneIds :
    scenes[id] # NoRow => validateScene(scenes[id].data).valid

\* C23: element ids are unique within a stored document.
C23_StoredIdsUnique ==
  \A id \in SceneIds :
    scenes[id] # NoRow =>
      \A i, j \in 1..Len(scenes[id].data.elements) :
         scenes[id].data.elements[i].id = scenes[id].data.elements[j].id => i = j

(* --------------------------- thumbnails on create --------------------- *)

\* C24: thumbnail generation is best-effort.  A create whose body passes the
\* validator stores the document and returns it whether rendering the
\* thumbnail succeeded or failed; when it failed (and the client sent none)
\* the row has no thumbnail.
C24_ThumbnailBestEffort ==
  [][\A d \in FieldsCreateInputs, rendered \in RenderOutcomes :
       (/\ nextId = FieldsDocId
        /\ Create(d, "alice", rendered)
        /\ validateScene(d.data.v).valid)
       => /\ scenes'[FieldsDocId] # NoRow
          /\ scenes'[FieldsDocId].data = d.data.v
          /\ resp'.result = Ok([scene |-> scenes'[FieldsDocId]])
          /\ (rendered = NULL /\ ~d.thumbnail.some)
               => scenes'[FieldsDocId].thumbnail = NULL]_vars

\* A scene with an element was created without a client thumbnail, rendering
\* failed, and the row is there without a thumbnail.
C24_Witness ==
  /\ resp.op = "create"
  /\ resp.result.kind = "ok"
  /\ ~resp.input.v.thumbnail.some
  /\ Len(resp.input.v.data.v.elements) > 0
  /\ scenes[FieldsDocId] # NoRow
  /\ scenes[FieldsDocId].data = resp.input.v.data.v
  /\ scenes[FieldsDocId].thumbnail = NULL

(* ------------------------- the frame of a patch ----------------------- *)

\* The value a body holds under a top-level key, None when it has no such key.
KeyOf(body, key) == IF key \in DOMAIN body THEN Some(body[key]) ELSE None

\* C25: a successful incremental patch that supplies appState, respectively
\* files, stores exactly the patch's value under that key (nothing of the
\* previous value is kept), and one that omits the field leaves the key of the
\* stored body as it was.
C25_StateReplacedWholesale ==
  [][(resp'.op = "patchElements" /\ resp'.result.kind = "ok")
     => \A key \in {"appState", "files"} :
          KeyOf(scenes'[resp'.id].data, key)
            = IF resp'.input.v[key].some THEN Some(resp'.input.v[key].v)
              ELSE KeyOf(scenes[resp'.id].data, key)]_vars

\* A patch with the appState {zoom: 2} and no files went to a body that held
\* {zoom: 1, theme: "dark"}: the stored appState has no theme, and the files
\* map is the one stored before.
C25_Witness ==
  /\ resp.op = "patchElements"
  /\ resp.result.kind = "ok"
  /\ resp.input.v.appState = Some([zoom |-> 2])
  /\ ~resp.input.v.files.some
  /\ KeyOf(scenes[FieldsDocId].data, "appState") = Some([zoom |-> 2])
  /\ KeyOf(scenes[FieldsDocId].data, "files")
       = Some([f1 |-> "data:image/png;base64,a"])

\* C26: a successful full update or incremental patch leaves the row with an
\* updated_at later than the one it had, and one that fails (NotFound,
\* Forbidden, a rejected body) leaves updated_at as it was.
C26_UpdatedAtAdvances ==
  [][(resp'.op \in {"update", "patchElements"} /\ now' = now)
     => IF resp'.result.kind = "ok"
          THEN scenes'[resp'.id].updated_at > scenes[resp'.id].updated_at
          ELSE scenes' = scenes]_vars

\* C28: the frame of an incremental patch.  A successful patch leaves the
\* row's id, owner, title, visibility and created_at as they were, writes the
\* thumbnail only when it carries one, and changes of the body only appState
\* and files (when it carries them) and the elements it names: every stored
\* element with an id that is in neither its upserts nor its deletes is still
\* stored as it was, no element with such an id is new, the ids it deletes are
\* gone, and an id it upserts (and does not delete) is stored once, as sent.
C28_PatchFrame ==
  [][(resp'.op = "patchElements" /\ resp'.result.kind = "ok" /\ now' = now)
     => LET patch == resp'.input.v
            old == scenes[resp'.id]
            new == scenes'[resp'.id]
            deleted == {patch.deletes[k] : k \in 1..Len(patch.deletes)}
            At(elements, id) == {k \in 1..Len(elements) : elements[k].id = id}
        IN /\ new.id = old.id
           /\ new.user_id = old.user_id
           /\ new.title = old.title
           /\ new.is_public = old.is_public
           /\ new.created_at = old.created_at
           /\ new.thumbnail = IF patch.thumbnail.some THEN patch.thumbnail.v
                              ELSE old.thumbnail
           /\ DOMAIN new.data
                = DOMAIN old.data
                    \cup {key \in {"appState", "files"} : patch[key].some}
           /\ \A key \in DOMAIN old.data \ {"elements", "appState", "files"} :
                new.data[key] = old.data[key]
           /\ \A k \in 1..Len(old.data.elements) :
                old.data.elements[k].id \notin Touched(patch)
                  => \E j \in 1..Len(new.data.elements) :
                        new.data.elements[j] = old.data.elements[k]
           /\ \A j \in 1..Len(new.data.elements) :
                new.data.elements[j].id \notin Touched(patch)
                  => \E k \in 1..Len(old.data.elements) :
                        old.data.elements[k] = new.data.elements[j]
           /\ \A id \in deleted : At(new.data.elements, id) = {}
           /\ \A id \in IdsOf(patch.upserts) \ deleted :
                /\ Cardinality(At(new.data.elements, id)) = 1
                /\ \A j \in At(new.data.elements, id) :
                      new.data.elements[j] = LastUpsert(patch, id)]_vars

\* C27: appState and files must be plain objects.  Whenever the scene has an
\* appState member whose value is no plain object (null, an array or a
\* primitive), validateScene returns an invalid result with exactly one error
\* at $.appState; likewise a files member that is no plain object gives exactly
\* one error at $.files.
C27_NonObjectStateRejected ==
  call.fn = "validateScene" /\ call.done /\ call.data.t = "object"
    => \A key \in {"appState", "files"} :
         Get(call.data, key).t \notin {"undefined", "object"}
           => /\ call.result.outcome = "returns"
              /\ ~call.result.result.valid
              /\ Cardinality({k \in 1..Len(call.result.result.errors) :
                                call.result.result.errors[k].path = "$." \o key})
                   = 1

(* ------------------------ a delete during a write --------------------- *)

\* A patch (request 1) and a full update (request 2) of the same document are
\* in flight while its owner deletes it and others read.
RaceInit ==
  /\ nextId = 2
  /\ resp = NoAnswer
  /\ call = Idle
  /\ adopters = NoAdopters
  /\ writes = [i \in SceneIds |-> 0]
  /\ now = 0
  /\ sessions = NoSessions
  /\ req = NoRequest
  /\ \E pub \in BOOLEAN :
        scenes = [i \in SceneIds |->
                    IF i = PatchDocId
                      THEN [Row(i, "alice", pub, Body(<<Rect0>>))
                              EXCEPT !.title = "Plan"]
                      ELSE NoRow]
  /\ before = scenes
  /\ \E patch \in {PatchInput(<<Rect50>>, <<>>, None),
                   PatchInput(<<>>, <<"e1">>, Some(ClientPng))},
        data \in {SceneInput(Some("Sketch"), Some(Body(<<Rect50>>)),
                             Some(TRUE), None),
                  SceneInput(None, Some(Body(<<Alien>>)), None, None)} :
        patchers = [p \in Patchers |->
                      [pc |-> "ready", id |-> PatchDocId, patch |-> patch,
                       data |-> IF p = 1 THEN None ELSE Some(data),
                       userId |-> "alice", ownedScenes |-> None,
                       scene |-> NoRow, payload |-> None, result |-> None,
                       affected |-> 0]]

\* ScenesService.update from the row it fetched to the payload it hands to the
\* repository.
UpdateMerge(p) ==
  LET a == patchers[p]
      data == a.data.v
      guard == mutationGuard(a.scene, a.userId, a.ownedScenes,
                             "Not authorized to modify this scene")
  IN
  /\ a.pc = "fetched"
  /\ patchers' = [patchers EXCEPT ![p] =
        IF guard.some
          THEN [a EXCEPT !.pc = "returned", !.result = Some(guard.v)]
        ELSE IF data.data.some /\ ~validateScene(data.data.v).valid
          THEN [a EXCEPT !.pc = "returned",
                         !.result = Some(ValidationFailed(validateScene(data.data.v)))]
        ELSE [a EXCEPT !.pc = "merged", !.payload = Some(data)]]
  /\ UNCHANGED scenes
  /\ PatchFrame

\* A write that saves the instance it holds, putting the row back when it is
\* gone.
RaceWriteSaving(p) ==
  LET a == patchers[p] IN
  /\ a.pc = "merged"
  /\ scenes' = [scenes EXCEPT ![a.id] = RepoUpdate(a.scene, a.payload.v)]
  /\ patchers' = [patchers EXCEPT ![p].pc = "returned",
                                  ![p].affected = 1,
                                  ![p].result =
                                     Some(Ok([scene |-> RepoUpdate(a.scene, a.payload.v)]))]
  /\ PatchFrame

\* scene.update(payload) of the instance fetched earlier: UPDATE ... WHERE id,
\* which changes the row if it is still there and matches nothing if it is
\* not; the handler gets its instance back either way.
RaceWrite(p) ==
  LET a == patchers[p] IN
  /\ a.pc = "merged"
  /\ scenes' = [scenes EXCEPT ![a.id] =
                  IF @ = NoRow THEN @ ELSE RepoUpdate(@, a.payload.v)]
  /\ patchers' = [patchers EXCEPT ![p].pc = "returned",
                                  ![p].affected =
                                     IF scenes[a.id] = NoRow THEN 0 ELSE 1,
                                  ![p].result =
                                     Some(Ok([scene |-> RepoUpdate(a.scene, a.payload.v)]))]
  /\ PatchFrame

\* ScenesService.list: the rows of the filter, as ids.
List(filter, userId) ==
  /\ resp' = [op |-> "list", filter |-> filter, userId |-> userId,
              result |-> Ok([scenes |->
                               {i \in SceneIds :
                                  /\ scenes[i] # NoRow
                                  /\ IF filter = "mine"
                                       THEN scenes[i].user_id = userId
                                       ELSE scenes[i].is_public}])]
  /\ UNCHANGED <<scenes, nextId>>
  /\ ServiceFrame

RaceNext ==
  \/ \E p \in Patchers : PatchFetch(p)
  \/ \E p \in Patchers : patchers[p].data = None /\ PatchMerge(p)
  \/ \E p \in Patchers : patchers[p].data # None /\ UpdateMerge(p)
  \/ \E p \in Patchers : RaceWrite(p)
  \/ /\ \E u \in Users : Delete(PatchDocId, u, None)
     /\ UNCHANGED <<sessions, req>>
  \/ /\ \E u \in Users : FindById(PatchDocId, u, None)
     /\ UNCHANGED <<sessions, req>>
  \/ /\ \E filter \in {"mine", "public"} : List(filter, "alice")
     /\ UNCHANGED <<sessions, req>>

SpecRace == RaceInit /\ [][RaceNext]_vars

\* C29: no resurrection after a delete.  Once the document's row is gone, it
\* stays gone whatever an update or a patch that fetched it earlier writes
\* back: every later read of the id answers NotFound and no listing has it.
C29_NoResurrection ==
  [][scenes[PatchDocId] = NoRow
     => /\ scenes'[PatchDocId] = NoRow
        /\ (resp' # resp /\ resp'.op = "findById")
             => resp'.result.kind = "NotFound"
        /\ (resp' # resp /\ resp'.op = "list")
             => PatchDocId \notin resp'.result.payload.scenes]_vars

\* The patch and the update both fetched the row, it was deleted, both wrote
\* back and matched nothing, and a read after that found nothing.
C29_Witness ==
  /\ scenes[PatchDocId] = NoRow
  /\ \A p \in Patchers : /\ patchers[p].pc = "returned"
                         /\ patchers[p].result.v.kind = "ok"
                         /\ patchers[p].affected = 0
  /\ resp.op = "findById"
  /\ resp.result.kind = "NotFound"

(* ------------------------------ the editor ---------------------------- *)

\* Highest version an element reaches in the editor.
MaxVersion == 3

\* An element as the editor holds it: every change raises its version.
Versioned(id, version) == ("version" :> version) @@ El(id, "rectangle", 0)

\* Editor.getElementDiff: the elements that are new or newer than the synced
\* version, and the synced ids that are no longer in the scene; null when
\* there is neither.
getElementDiff(currentElements, lastVersions) ==
  LET upserts == SelectSeq(currentElements,
                   LAMBDA el : \/ el.id \notin IdsOf(lastVersions)
                               \/ el.version > ContentOf(lastVersions, el.id).version)
      synced == [k \in 1..Len(lastVersions) |-> lastVersions[k].id]
      deletes == SelectSeq(synced, LAMBDA id : id \notin IdsOf(currentElements))
  IN IF Len(upserts) = 0 /\ Len(deletes) = 0 THEN None
     ELSE Some([upserts |-> upserts, deletes |-> deletes])

\* Editor.snapshotVersions: a new map of the versions of the elements the
\* scene holds at the moment of the call.
snapshotVersions(currentElements) ==
  SetAll(<<>>, [k \in 1..Len(currentElements) |->
                  [id |-> currentElements[k].id,
                   version |-> currentElements[k].version]])

\* The editor has loaded a document its session owns: the scene holds the
\* stored elements and the map their versions.  No save is in flight.
EditorInit ==
  /\ nextId = 2
  /\ resp = NoAnswer
  /\ adopters = NoAdopters
  /\ writes = [i \in SceneIds |-> 0]
  /\ patchers = NoPatchers
  /\ now = 0
  /\ sessions = NoSessions
  /\ req = NoRequest
  /\ \E E \in {<<Versioned("e1", 1)>>, <<Versioned("e1", 1), Versioned("e2", 1)>>} :
        /\ scenes = [i \in SceneIds |->
                       IF i = PatchDocId THEN Row(i, NULL, FALSE, Body(E)) ELSE NoRow]
        /\ call = [fn |-> "Editor", elements |-> E,
                   lastSyncedVersions |-> snapshotVersions(E),
                   save |-> [pc |-> "idle", patch |-> None]]
  /\ before = scenes

\* The user draws: an element of the scene changes, an element is removed, or
\* an element with an id never used before is added.  A save may be in flight.
OnChange(id) ==
  /\ call.fn = "Editor"
  /\ \E elements \in
        IF id \in IdsOf(call.elements)
          THEN {MapDelete(call.elements, id)}
               \cup {MapSet(call.elements,
                            Versioned(id, ContentOf(call.elements, id).version + 1)) :
                       v \in {w \in {1} :
                                ContentOf(call.elements, id).version < MaxVersion}}
          ELSE {Append(call.elements, Versioned(id, 1)) :
                  v \in {w \in {1} :
                           /\ id \notin IdsOf(call.lastSyncedVersions)
                           /\ id \notin IdsOf(scenes[PatchDocId].data.elements)
                           /\ call.save.patch.some
                                => id \notin IdsOf(call.save.patch.v.upserts)}} :
        call' = [call EXCEPT !.elements = elements]
  /\ UNCHANGED <<scenes, nextId, resp, adopters, writes, before, patchers, now,
                 sessions, req>>

\* Editor.doIncrementalSave up to its await of patchScene: the diff is taken,
\* the thumbnail rendered, the request built.
SaveStart ==
  LET diff == getElementDiff(call.elements, call.lastSyncedVersions)
      thumbnail == IF Len(call.elements) = 0 THEN None ELSE Some(ClientPng)
  IN
  /\ call.fn = "Editor"
  /\ call.save.pc = "idle"
  /\ diff.some
  /\ call' = [call EXCEPT !.save =
                [pc |-> "sent",
                 patch |-> Some([PatchInput(diff.v.upserts, diff.v.deletes, thumbnail)
                                   EXCEPT !.appState = Some([zoom |-> 1]),
                                          !.files = Some([f1 |-> "data:image/png;base64,a"])])]]
  /\ UNCHANGED <<scenes, nextId, resp, adopters, writes, before, patchers, now,
                 sessions, req>>

\* The request reaches the server, from a session that owns the document or
\* from one that has lost it, and patchElements answers.
SaveRequest ==
  /\ call.fn = "Editor"
  /\ call.save.pc = "sent"
  /\ resp = NoAnswer
  /\ \E ownedScenes \in {Some(<<PatchDocId>>), Some(<<>>)} :
        PatchElements(PatchDocId, call.save.patch.v, Undefined, ownedScenes)
  /\ UNCHANGED <<sessions, req>>

\* Editor.doIncrementalSave after its await: when the patch was accepted,
\* snapshotVersions() of the scene as it is by now; when it was not, the catch
\* branch, which leaves the map alone.
SaveResolve ==
  /\ call.fn = "Editor"
  /\ call.save.pc = "sent"
  /\ resp # NoAnswer
  /\ call' = [call EXCEPT
                !.lastSyncedVersions =
                   IF resp.result.kind = "ok" THEN snapshotVersions(call.elements)
                   ELSE @,
                !.save = [pc |-> "idle", patch |-> None]]
  /\ resp' = NoAnswer
  /\ UNCHANGED <<scenes, nextId, adopters, writes, before, patchers, now,
                 sessions, req>>

EditorNext ==
  \/ \E id \in ElemIds : OnChange(id)
  \/ SaveStart
  \/ SaveRequest
  \/ SaveResolve

SpecEditor == EditorInit /\ [][EditorNext]_vars

\* C30: incremental autosave loses no edit.  When a save is accepted, the
\* versions newly recorded in the synced map are versions the accepted patch
\* carried; so whenever no save is in flight, every element whose state in the
\* editor differs from what the server has accepted (changed, added or
\* removed) is reported by the next diff; and a save that failed leaves the
\* synced map as it was.
C30_AutosaveLosesNoEdit ==
  [][LET editor == call'
         accepted == scenes'[PatchDocId].data.elements
         diff == getElementDiff(editor.elements, editor.lastSyncedVersions)
         reported == IF diff.some
                       THEN IdsOf(diff.v.upserts)
                              \cup {diff.v.deletes[k] : k \in 1..Len(diff.v.deletes)}
                       ELSE {}
         StateOf(elements, id) ==
           IF id \in IdsOf(elements) THEN Some(ContentOf(elements, id)) ELSE None
     IN /\ (call.save.pc = "sent" /\ editor.save.pc = "idle"
              /\ resp.result.kind = "ok")
             => \A k \in 1..Len(editor.lastSyncedVersions) :
                   LET entry == editor.lastSyncedVersions[k] IN
                   \/ Includes(call.lastSyncedVersions, entry)
                   \/ \E j \in 1..Len(call.save.patch.v.upserts) :
                         /\ call.save.patch.v.upserts[j].id = entry.id
                         /\ call.save.patch.v.upserts[j].version = entry.version
        /\ editor.save.pc = "idle"
             => \A id \in ElemIds :
                   StateOf(editor.elements, id) # StateOf(accepted, id)
                     => id \in reported
        /\ (call.save.pc = "sent" /\ editor.save.pc = "idle"
              /\ resp.result.kind # "ok")
             => editor.lastSyncedVersions = call.lastSyncedVersions]_vars

=============================================================================
